---------------------------- MODULE Spec2Model ----------------------------
(***************************************************************************)
(* A model of the storage core of BusTub: the buffer pool manager        *)
(* instance (src/buffer/buffer_pool_manager_instance.cpp) on top of the   *)
(* LRU replacer (src/buffer/lru_replacer.cpp), and the replacer on its    *)
(* own.                                                                    *)
(*                                                                         *)
(* Every public operation of the buffer pool runs under the pool's latch  *)
(* (FlushAllPgsImp apart, which takes it once per page), so one operation *)
(* is one action.  Each XxxPgImp below is the method as a function of the *)
(* current state: the state it leaves and what it returns.  The disk      *)
(* manager is a map from page ids to page bytes; page bytes are           *)
(* abstracted to a small set of values.                                   *)
(***************************************************************************)
EXTENDS Integers, Sequences, FiniteSets, TLC

(***************************************************************************)
(* Bounds of the model.                                                    *)
(***************************************************************************)
\* pool_size_ handed to the constructor: the number of frames
PoolSize == 2
\* the largest num_instances_ the constructor is tried with
MaxInstances == 2
\* how many page ids one instance allocates before NewPage is cut off
MaxAlloc == 3
\* pin counts are explored up to this value (FetchPage hits are cut off)
MaxPin == 2

\* lru_size_ handed to the constructor of a replacer used on its own
LruSize == 4

\* BUCKET_ARRAY_SIZE: the number of (key, value) slots of a bucket page
BUCKET_ARRAY_SIZE == 2
\* keys are 0 .. MaxKey and values 0 .. MaxValue
MaxKey == 3
MaxValue == 1

\* the directory page has 2^MAX_DEPTH slots (DIRECTORY_ARRAY_SIZE)
MAX_DEPTH == 3
\* the width of the downcast hash (32 in the code)
HashWidth == 4
\* how many bucket pages the index allocates before NewBucketPage is cut off
MaxBucketPages == 4

\* the transactions that call the lock manager are 1 .. MaxTxns
MaxTxns == 3
\* how many requests the queue of a rid takes before lock calls are cut off
MaxRequests == 4

\* common/config.h: the "no page" id; the code also uses it for "no frame"
INVALID_PAGE_ID == -1

Frames == 0 .. (PoolSize - 1)

\* every page id an instance of the model can allocate
PageIds == 0 .. (MaxInstances * MaxAlloc)

\* page bytes: "zero" is a frame after ResetMemory (and a page never
\* written to disk), the others are what a caller stored in a pinned page
Data == {"zero", "a"}

VARIABLES
    pages,           \* pages_[f]: page_id_, pin_count_, is_dirty_, data
    page_table,      \* page_table_: page id -> frame id, resident pages only
    free_list,       \* free_list_: sequence of frame ids
    lru_list,        \* replacer_->lru_list_ (lru_map_ is its index)
    next_page_id,    \* next_page_id_
    num_instances,   \* num_instances_
    instance_index,  \* instance_index_
    disk,            \* the disk manager: page id -> bytes
    unflushed,       \* history: pages unpinned dirty and not written since
    allocs,          \* history: how many NewPage calls have succeeded
    rep_list,        \* lru_list_ of a replacer used on its own
    rep_ndebug,      \* the build of that replacer: is NDEBUG defined
    rep_blocked,     \* a call is blocked on latch_ inside Unpin
    rep_order,       \* history: tracked frames by latest successful Unpin
    rep_last,        \* history: the last call on the replacer and its result
    bucket,          \* a hash bucket page used on its own
    ht_dir,          \* the directory page of the hash index
    ht_buckets,      \* the bucket pages of the index: page id p is entry p
    ht_pc,           \* "idle", or "split" inside the loop of SplitInsert
    ht_arg,          \* the (key, value) of the SplitInsert in progress
    ht_present,      \* history: pairs inserted (true) and not removed since
    ht_removed,      \* history: pairs removed (true) and not inserted since
    lm_txn,          \* the transactions: state_ and the two owned-lock sets
    lm_rq,           \* lock_table_[rid]: the LockRequestQueue of the rid
    lm_pc,           \* per transaction: "idle" or the method it waits in
    lm_notified,     \* waiters a notify_all has woken and that have not run
    flush_all        \* the loop of a FlushAllPgsImp that runs beside other calls

config == <<num_instances, instance_index>>
bpmVars == <<pages, page_table, free_list, lru_list, next_page_id,
             num_instances, instance_index, disk, unflushed, allocs>>
repVars == <<rep_list, rep_ndebug, rep_blocked, rep_order, rep_last>>
\* what the buffer pool's calls leave alone, and the replacer's calls
htVars == <<ht_dir, ht_buckets, ht_pc, ht_arg, ht_present, ht_removed>>
lmVars == <<lm_txn, lm_rq, lm_pc, lm_notified>>
notPool == <<repVars, bucket, htVars, lmVars, flush_all>>
notReplacer == <<bpmVars, bucket, htVars, lmVars, flush_all>>
notBucket == <<bpmVars, repVars, htVars, lmVars, flush_all>>
notIndex == <<bpmVars, repVars, bucket, lmVars, flush_all>>
notLocks == <<bpmVars, repVars, bucket, htVars, flush_all>>
vars == <<bpmVars, repVars, bucket, htVars, lmVars, flush_all>>

Range(s) == {s[i] : i \in DOMAIN s}

(***************************************************************************)
(* LRU replacer.  lru_list_ is kept oldest first; lru_map_ maps a frame   *)
(* to its node, so "f is a key of lru_map_" is "f occurs in lru_list_".   *)
(***************************************************************************)
\* LRUReplacer::Victim: false when empty, else pops the front
LRUVictim(list) ==
    IF list = <<>>
    THEN [ok |-> FALSE, frame |-> INVALID_PAGE_ID, list |-> list]
    ELSE [ok |-> TRUE, frame |-> Head(list), list |-> Tail(list)]

\* LRUReplacer::Pin: erases the frame's node when it has one
LRUPin(list, f) == SelectSeq(list, LAMBDA x : x # f)

\* Unpin that moves a frame it already tracks to the tail
LRUUnpin_Refreshes(list, f, lru_size) ==
    Append(SelectSeq(list, LAMBDA x : x # f), f)

\* LRUReplacer::Unpin up to its size test: no-op when tracked, else
\* push_back.  Nothing is dropped when the list outgrows lru_size_: the only
\* eviction is the Victim call inside assert(), see LRUUnpinOverflows.
LRUUnpin(list, f, lru_size) ==
    IF f \in Range(list) THEN list ELSE Append(list, f)

\* LRUReplacer::Unpin, the size test after the push_back.  When it is true a
\* build without NDEBUG evaluates assert(Victim(&victim)): Victim locks
\* latch_, the std::mutex this call of Unpin already holds, so the call never
\* returns; a build with NDEBUG drops the assert and the Victim call with it.
\* The pool builds the replacer with lru_size_ = pool_size_ and tracks frames
\* of the pool only, so the test is never true in the buffer pool.
LRUUnpinOverflows(list, f, lru_size) ==
    /\ f \notin Range(list)
    /\ Len(list) + 1 > lru_size

(***************************************************************************)
(* Buffer pool helpers.                                                    *)
(***************************************************************************)
\* the pool's state as a record; the methods below map it to a new one
Current ==
    [pages |-> pages, page_table |-> page_table, free_list |-> free_list,
     lru_list |-> lru_list, next_page_id |-> next_page_id,
     writes |-> <<>>]

\* FindPage: the frame of a page, INVALID_PAGE_ID when it is not resident
FindPage(pt, page_id) ==
    IF page_id \in DOMAIN pt THEN pt[page_id] ELSE INVALID_PAGE_ID

\* page_table_.erase(page_id)
Erase(pt, page_id) == [p \in (DOMAIN pt) \ {page_id} |-> pt[p]]

\* page_table_[page_id] = f
Bind(pt, page_id, f) ==
    [p \in (DOMAIN pt) \cup {page_id} |-> IF p = page_id THEN f ELSE pt[p]]

\* FlushPageReally with the write left out
FlushPageReally_NoWrite(pt, pgs, page_id) == <<>>

\* FlushPageReally: the WritePage calls it makes, as <<page id, bytes>>;
\* it writes only a resident page whose frame is dirty
FlushPageReally(pt, pgs, page_id) ==
    LET target_frame == FindPage(pt, page_id)
    IN  IF target_frame = INVALID_PAGE_ID THEN <<>>
        ELSE IF pgs[target_frame].is_dirty
             THEN << <<page_id, pgs[target_frame].data>> >>
             ELSE <<>>

\* disk_manager_->WritePage, for a sequence of calls in order
RECURSIVE DiskAfter(_, _)
DiskAfter(dsk, writes) ==
    IF writes = <<>> THEN dsk
    ELSE DiskAfter(IF Head(writes)[1] \in DOMAIN dsk
                   THEN [dsk EXCEPT ![Head(writes)[1]] = Head(writes)[2]]
                   ELSE dsk,
                   Tail(writes))

\* the pages a sequence of WritePage calls wrote
Written(writes) == {writes[i][1] : i \in DOMAIN writes}

\* FindFreshPage that leaves the victim's page in the page table
FindFreshPage_NoErase ==
    IF free_list # <<>>
    THEN [Current EXCEPT !.free_list = Tail(free_list)]
            @@ [frame |-> Head(free_list)]
    ELSE LET v == LRUVictim(lru_list)
         IN  IF v.ok
             THEN LET page_id == pages[v.frame].page_id
                  IN  [Current EXCEPT
                          !.lru_list = v.list,
                          !.writes = FlushPageReally(page_table, pages, page_id),
                          !.pages = [pages EXCEPT ![v.frame].is_dirty = FALSE]]
                      @@ [frame |-> v.frame]
             ELSE Current @@ [frame |-> INVALID_PAGE_ID]

\* FindFreshPage: the free list first, then a victim of the replacer, which
\* is flushed, erased from the page table and marked clean
FindFreshPage ==
    IF free_list # <<>>
    THEN [Current EXCEPT !.free_list = Tail(free_list)]
            @@ [frame |-> Head(free_list)]
    ELSE LET v == LRUVictim(lru_list)
         IN  IF v.ok
             THEN LET page_id == pages[v.frame].page_id
                  IN  [Current EXCEPT
                          !.lru_list = v.list,
                          !.writes = FlushPageReally(page_table, pages, page_id),
                          !.page_table = Erase(page_table, page_id),
                          !.pages = [pages EXCEPT ![v.frame].is_dirty = FALSE]]
                      @@ [frame |-> v.frame]
             ELSE Current @@ [frame |-> INVALID_PAGE_ID]

\* AllocatePage: returns next_page_id_ and strides it by num_instances_
AllocatePage(next) == [page_id |-> next, next_page_id |-> next + num_instances]

\* the ids this instance has handed out so far
Allocated == {p \in PageIds : p % num_instances = instance_index
                              /\ p < next_page_id}

(***************************************************************************)
(* The methods.  Each yields the pool's state after the call (the fields   *)
(* of Current, writes being the WritePage calls made) and the result: ok,  *)
(* and for NewPgImp the page id.                                           *)
(***************************************************************************)
\* NewPgImp that calls AllocatePage before it looks for a frame
NewPgImp_AllocatesFirst ==
    LET r == FindFreshPage
        a == AllocatePage(next_page_id)
    IN  IF r.frame = INVALID_PAGE_ID
        THEN [Current EXCEPT !.next_page_id = a.next_page_id]
             @@ [ok |-> FALSE, page_id |-> INVALID_PAGE_ID]
        ELSE [pages |-> [r.pages EXCEPT
                            ![r.frame].page_id = a.page_id,
                            ![r.frame].pin_count = @ + 1,
                            ![r.frame].data = "zero",
                            ![r.frame].is_dirty = FALSE],
              page_table |-> Bind(r.page_table, a.page_id, r.frame),
              free_list |-> r.free_list,
              lru_list |-> r.lru_list,
              next_page_id |-> a.next_page_id,
              writes |-> r.writes,
              ok |-> TRUE, page_id |-> a.page_id]

\* NewPgImp: nullptr when FindFreshPage finds nothing; else allocates an id,
\* pins the frame, zeroes it, marks it clean and binds it
NewPgImp ==
    LET r == FindFreshPage
        a == AllocatePage(next_page_id)
    IN  IF r.frame = INVALID_PAGE_ID
        THEN Current @@ [ok |-> FALSE, page_id |-> INVALID_PAGE_ID]
        ELSE [pages |-> [r.pages EXCEPT
                            ![r.frame].page_id = a.page_id,
                            ![r.frame].pin_count = @ + 1,
                            ![r.frame].data = "zero",
                            ![r.frame].is_dirty = FALSE],
              page_table |-> Bind(r.page_table, a.page_id, r.frame),
              free_list |-> r.free_list,
              lru_list |-> r.lru_list,
              next_page_id |-> a.next_page_id,
              writes |-> r.writes,
              ok |-> TRUE, page_id |-> a.page_id]

\* FetchPgImp.  Hit: Pin in the replacer, pin_count_++, is_dirty_ = true.
\* Miss: FindFreshPage, bind, Pin in the replacer, pin_count_++, clean, and
\* ReadPage into the frame; nullptr when FindFreshPage finds nothing.
FetchPgImp(page_id) ==
    LET hit == FindPage(page_table, page_id)
        r == FindFreshPage
    IN  IF hit # INVALID_PAGE_ID
        THEN [Current EXCEPT
                 !.lru_list = LRUPin(lru_list, hit),
                 !.pages = [pages EXCEPT ![hit].pin_count = @ + 1,
                                         ![hit].is_dirty = TRUE]]
             @@ [ok |-> TRUE]
        ELSE IF r.frame = INVALID_PAGE_ID
        THEN Current @@ [ok |-> FALSE]
        ELSE [pages |-> [r.pages EXCEPT
                            ![r.frame].page_id = page_id,
                            ![r.frame].pin_count = @ + 1,
                            ![r.frame].is_dirty = FALSE,
                            ![r.frame].data =
                                DiskAfter(disk, r.writes)[page_id]],
              page_table |-> Bind(r.page_table, page_id, r.frame),
              free_list |-> r.free_list,
              lru_list |-> LRUPin(r.lru_list, r.frame),
              next_page_id |-> next_page_id,
              writes |-> r.writes,
              ok |-> TRUE]

\* UnpinPgImp that assigns is_dirty_ = is_dirty whatever the flag was
UnpinPgImp_AssignsDirty(page_id, is_dirty) ==
    LET target_frame == FindPage(page_table, page_id)
    IN  IF target_frame = INVALID_PAGE_ID
        THEN Current @@ [ok |-> FALSE]
        ELSE IF pages[target_frame].pin_count = 0
        THEN Current @@ [ok |-> FALSE]
        ELSE LET marked == [pages EXCEPT ![target_frame].is_dirty = is_dirty]
                 unpinned == [marked EXCEPT ![target_frame].pin_count = @ - 1]
                 zero == unpinned[target_frame].pin_count = 0
             IN  [Current EXCEPT
                     !.pages = unpinned,
                     !.lru_list = IF zero
                                  THEN LRUUnpin(lru_list, target_frame, PoolSize)
                                  ELSE lru_list,
                     !.writes = IF zero
                                THEN FlushPageReally(page_table, unpinned, page_id)
                                ELSE <<>>]
                 @@ [ok |-> TRUE]

\* UnpinPgImp: false when the page is not resident or not pinned; else ORs
\* the dirty flag, decrements the pin count and, at zero, hands the frame to
\* the replacer and writes the page out if it is dirty
UnpinPgImp(page_id, is_dirty) ==
    LET target_frame == FindPage(page_table, page_id)
    IN  IF target_frame = INVALID_PAGE_ID
        THEN Current @@ [ok |-> FALSE]
        ELSE IF pages[target_frame].pin_count = 0
        THEN Current @@ [ok |-> FALSE]
        ELSE LET marked == IF is_dirty
                           THEN [pages EXCEPT ![target_frame].is_dirty = TRUE]
                           ELSE pages
                 unpinned == [marked EXCEPT ![target_frame].pin_count = @ - 1]
                 zero == unpinned[target_frame].pin_count = 0
             IN  [Current EXCEPT
                     !.pages = unpinned,
                     !.lru_list = IF zero
                                  THEN LRUUnpin(lru_list, target_frame, PoolSize)
                                  ELSE lru_list,
                     !.writes = IF zero
                                THEN FlushPageReally(page_table, unpinned, page_id)
                                ELSE <<>>]
                 @@ [ok |-> TRUE]

\* FlushPgImp: false when the page is not resident; else FlushPageReally and
\* is_dirty_ = false.  st is the state it starts in.
FlushPgImp(st, page_id) ==
    LET target_frame == FindPage(st.page_table, page_id)
    IN  IF target_frame = INVALID_PAGE_ID
        THEN st @@ [ok |-> FALSE]
        ELSE [st EXCEPT
                 !.writes = st.writes
                            \o FlushPageReally(st.page_table, st.pages, page_id),
                 !.pages = [st.pages EXCEPT ![target_frame].is_dirty = FALSE]]
             @@ [ok |-> TRUE]

\* the loop of FlushAllPgsImp over the entries of page_table_
RECURSIVE FlushEach(_, _)
FlushEach(st, todo) ==
    IF todo = {} THEN st
    ELSE LET page_id == CHOOSE p \in todo : TRUE
             one == FlushPgImp(st, page_id)
         IN  FlushEach([f \in DOMAIN st |-> one[f]], todo \ {page_id})

\* FlushAllPgsImp: FlushPgImp of every entry of the page table
FlushAllPgsImp == FlushEach(Current, DOMAIN page_table) @@ [ok |-> TRUE]

\* DeletePgImp: true when the page is not resident, false when it is pinned;
\* else erases it from the page table, resets the frame and appends the
\* frame to the free list (DeallocatePage is a no-op)
DeletePgImp(page_id) ==
    LET target_frame == FindPage(page_table, page_id)
    IN  IF target_frame = INVALID_PAGE_ID
        THEN Current @@ [ok |-> TRUE]
        ELSE IF pages[target_frame].pin_count > 0
        THEN Current @@ [ok |-> FALSE]
        ELSE [Current EXCEPT
                 !.page_table = Erase(page_table, page_id),
                 !.pages = [pages EXCEPT
                               ![target_frame].page_id = INVALID_PAGE_ID,
                               ![target_frame].is_dirty = FALSE,
                               ![target_frame].data = "zero"],
                 !.free_list = Append(free_list, target_frame)]
             @@ [ok |-> TRUE]

(***************************************************************************)
(* Hash bucket page (src/storage/page/hash_table_bucket_page.cpp): the    *)
(* bitmaps occupied_ and readable_ and the slot array array_, indexed     *)
(* from 0.  Keys and values are small naturals; a zeroed page holds the   *)
(* pair <<0, 0>> in every slot and no bit.                                 *)
(***************************************************************************)
Keys == 0 .. MaxKey
Values == 0 .. MaxValue
Slots == 0 .. (BUCKET_ARRAY_SIZE - 1)

\* a page as NewPage hands it out (ResetMemory)
ZeroBucket ==
    [occupied |-> [i \in Slots |-> FALSE],
     readable |-> [i \in Slots |-> FALSE],
     array |-> [i \in Slots |-> <<0, 0>>]]

IsOccupied(b, bucket_idx) ==
    IF bucket_idx >= BUCKET_ARRAY_SIZE THEN FALSE ELSE b.occupied[bucket_idx]

SetOccupied(b, bucket_idx) ==
    IF bucket_idx >= BUCKET_ARRAY_SIZE THEN b
    ELSE [b EXCEPT !.occupied[bucket_idx] = TRUE]

IsReadable(b, bucket_idx) ==
    IF bucket_idx >= BUCKET_ARRAY_SIZE \/ ~IsOccupied(b, bucket_idx)
    THEN FALSE
    ELSE b.readable[bucket_idx]

SetReadable(b, bucket_idx) ==
    IF bucket_idx >= BUCKET_ARRAY_SIZE \/ ~IsOccupied(b, bucket_idx) THEN b
    ELSE [b EXCEPT !.readable[bucket_idx] = TRUE]

UnsetReadable(b, bucket_idx) ==
    IF bucket_idx >= BUCKET_ARRAY_SIZE THEN b
    ELSE [b EXCEPT !.readable[bucket_idx] = FALSE]

\* KeyAt, ValueAt: the default value {} for a slot that is not readable
KeyAt(b, bucket_idx) ==
    IF ~IsReadable(b, bucket_idx) THEN 0 ELSE b.array[bucket_idx][1]

ValueAt(b, bucket_idx) ==
    IF ~IsReadable(b, bucket_idx) THEN 0 ELSE b.array[bucket_idx][2]

\* where the loops "for (i = 0; i < BUCKET_ARRAY_SIZE && IsOccupied(i); ++i)"
\* stop: the first slot that is not occupied, BUCKET_ARRAY_SIZE if none
FirstUnoccupied(b) ==
    CHOOSE n \in 0 .. BUCKET_ARRAY_SIZE :
        /\ \A i \in 0 .. (n - 1) : IsOccupied(b, i)
        /\ n = BUCKET_ARRAY_SIZE \/ ~IsOccupied(b, n)

\* the slots such a loop visits, in order
Scanned(b) == [j \in 1 .. FirstUnoccupied(b) |-> j - 1]

\* HashTableBucketPage::GetValue: the values it appends to result, in order
BucketGetValue(b, key) ==
    LET hits == SelectSeq(Scanned(b),
                          LAMBDA i : IsReadable(b, i) /\ KeyAt(b, i) = key)
    IN  [j \in DOMAIN hits |-> ValueAt(b, hits[j])]

\* HashTableBucketPage::Insert
BucketInsert(b, key, value) ==
    LET found == BucketGetValue(b, key)
        i == FirstUnoccupied(b)
    IN  IF value \in Range(found) THEN [ok |-> FALSE, bucket |-> b]
        ELSE IF i = BUCKET_ARRAY_SIZE THEN [ok |-> FALSE, bucket |-> b]
        ELSE [ok |-> TRUE,
              bucket |-> SetReadable(
                             SetOccupied([b EXCEPT !.array[i] = <<key, value>>],
                                         i), i)]

\* Remove that reports the pair removed and leaves its slot readable
BucketRemove_KeepsReadable(b, key, value) ==
    [ok |-> value \in Range(BucketGetValue(b, key)), bucket |-> b]

\* HashTableBucketPage::Remove
BucketRemove(b, key, value) ==
    LET hits == SelectSeq(Scanned(b),
                          LAMBDA i : /\ IsReadable(b, i)
                                     /\ KeyAt(b, i) = key
                                     /\ ValueAt(b, i) = value)
    IN  IF hits = <<>> THEN [ok |-> FALSE, bucket |-> b]
        ELSE [ok |-> TRUE, bucket |-> UnsetReadable(b, Head(hits))]

\* RemoveAt that frees the slot, clearing its occupied bit as well
RemoveAt_ClearsOccupied(b, bucket_idx) ==
    IF ~IsReadable(b, bucket_idx) THEN b
    ELSE [UnsetReadable(b, bucket_idx) EXCEPT !.occupied[bucket_idx] = FALSE]

\* HashTableBucketPage::RemoveAt
RemoveAt(b, bucket_idx) ==
    IF ~IsReadable(b, bucket_idx) THEN b ELSE UnsetReadable(b, bucket_idx)

\* HashTableBucketPage::NumReadable
NumReadable(b) == Cardinality({i \in Range(Scanned(b)) : IsReadable(b, i)})

IsFull(b) == NumReadable(b) = BUCKET_ARRAY_SIZE

IsEmpty(b) == NumReadable(b) = 0

(***************************************************************************)
(* Hash directory page.  Its implementation is not part of the sources;   *)
(* the operations are those of section 4.4 of the specification, on the   *)
(* fields global_depth_, local_depths_ and bucket_page_ids_.               *)
(***************************************************************************)
DIRECTORY_ARRAY_SIZE == 2 ^ MAX_DEPTH
DirSlots == 0 .. (DIRECTORY_ARRAY_SIZE - 1)

\* the directory page as NewPage hands it out
ZeroDirectory ==
    [global_depth |-> 0,
     local_depths |-> [i \in DirSlots |-> 0],
     bucket_page_ids |-> [i \in DirSlots |-> 0]]

GetGlobalDepth(dir) == dir.global_depth
GetLocalDepth(dir, bucket_idx) == dir.local_depths[bucket_idx]
GetBucketPageId(dir, bucket_idx) == dir.bucket_page_ids[bucket_idx]
SetBucketPageId(dir, bucket_idx, bucket_page_id) ==
    [dir EXCEPT !.bucket_page_ids[bucket_idx] = bucket_page_id]
SetLocalDepth(dir, bucket_idx, local_depth) ==
    [dir EXCEPT !.local_depths[bucket_idx] = local_depth]
DecrLocalDepth(dir, bucket_idx) ==
    [dir EXCEPT !.local_depths[bucket_idx] = @ - 1]
IncrGlobalDepth(dir) == [dir EXCEPT !.global_depth = @ + 1]

\* the number of slots in use, 2^global_depth
Size(dir) == 2 ^ dir.global_depth

\* x & GlobalDepthMask, with GlobalDepthMask = (1 << global_depth) - 1
AndGlobalDepthMask(dir, x) == x % (2 ^ dir.global_depth)

\* x & LocalDepthMask(i), with LocalDepthMask(i) = (1 << local_depth(i)) - 1
AndLocalDepthMask(dir, bucket_idx, x) ==
    x % (2 ^ dir.local_depths[bucket_idx])

\* SplitImageIndex(i) = i XOR (1 << (local_depth(i) - 1)); local depths
\* are at least 1 wherever the index calls it
GetSplitImageIndex(dir, bucket_idx) ==
    LET bit == 2 ^ (dir.local_depths[bucket_idx] - 1)
    IN  IF (bucket_idx \div bit) % 2 = 1
        THEN bucket_idx - bit
        ELSE bucket_idx + bit

\* the bits of slot i that its local depth keeps: i & LocalDepthMask(i)
GetLocalHighBits(dir, bucket_idx) ==
    AndLocalDepthMask(dir, bucket_idx, bucket_idx)

\* Grow: the upper half of the doubled directory copies the lower half
Grow(dir) ==
    LET half == 2 ^ dir.global_depth
    IN  [global_depth |-> dir.global_depth + 1,
         local_depths |->
             [j \in DirSlots |-> IF half <= j /\ j < 2 * half
                                 THEN dir.local_depths[j - half]
                                 ELSE dir.local_depths[j]],
         bucket_page_ids |->
             [j \in DirSlots |-> IF half <= j /\ j < 2 * half
                                 THEN dir.bucket_page_ids[j - half]
                                 ELSE dir.bucket_page_ids[j]]]

CanShrink(dir) ==
    \A i \in 0 .. (Size(dir) - 1) : dir.local_depths[i] < dir.global_depth

Shrink(dir) == [dir EXCEPT !.global_depth = @ - 1]

\* VerifyIntegrity: every slot agrees with the slot its local depth maps it
\* to, slots of one bucket page have one local depth, none above global
VerifyIntegrity(dir) ==
    \A i \in 0 .. (Size(dir) - 1) :
        /\ dir.local_depths[i] <= dir.global_depth
        /\ dir.bucket_page_ids[i]
             = dir.bucket_page_ids[AndLocalDepthMask(dir, i, i)]
        /\ \A j \in 0 .. (Size(dir) - 1) :
              dir.bucket_page_ids[j] = dir.bucket_page_ids[i]
                  => dir.local_depths[j] = dir.local_depths[i]

(***************************************************************************)
(* Extendible hash index (src/container/hash/extendible_hash_table.cpp).  *)
(* The index works on pages it pins through the buffer pool; here the     *)
(* pool is large enough to keep every page of the index resident, so a    *)
(* page is the bytes last stored in it.  The directory is page 0 and the  *)
(* bucket pages are 1, 2, ... in the order NewBucketPage allocated them.  *)
(* No operation takes the table latch; the calls below are those of one   *)
(* thread.                                                                 *)
(***************************************************************************)
\* Hash: hash_fn_.GetHash maps a key of the model to itself, and the
\* downcast keeps the low HashWidth bits of it
Hash(key) == key % (2 ^ HashWidth)

KeyToDirectoryIndex(key, dir) == AndGlobalDepthMask(dir, Hash(key))

KeyToPageId(key, dir) == GetBucketPageId(dir, KeyToDirectoryIndex(key, dir))

\* the constructor: the directory page, two bucket pages, slot 0 and slot 1
\* both bound to bucket0_page_id
Construct ==
    LET bucket0_page_id == 1
        bucket1_page_id == 2
        d0 == SetLocalDepth(
                  SetBucketPageId(ZeroDirectory, 0, bucket0_page_id), 0, 1)
        d1 == SetLocalDepth(SetBucketPageId(d0, 1, bucket0_page_id), 1, 1)
    IN  [dir |-> IncrGlobalDepth(d1),
         buckets |-> <<ZeroBucket, ZeroBucket>>]

\* ExtendibleHashTable::GetValue: the values it appends to result
GetValue(dir, buckets, key) ==
    BucketGetValue(buckets[KeyToPageId(key, dir)], key)

\* ExtendibleHashTable::Insert: split is true when it yields to SplitInsert
Insert(dir, buckets, key, value) ==
    LET bucket_idx == KeyToDirectoryIndex(key, dir)
        bucket_page_id == GetBucketPageId(dir, bucket_idx)
        b == buckets[bucket_page_id]
    IN  IF ~IsFull(b)
        THEN LET r == BucketInsert(b, key, value)
             IN  [dir |-> dir,
                  buckets |-> [buckets EXCEPT ![bucket_page_id] = r.bucket],
                  ok |-> r.ok, split |-> FALSE]
        ELSE [dir |-> dir, buckets |-> buckets, ok |-> FALSE, split |-> TRUE]

\* SplitInsert, the migration loop
\*   for (i = 0; i < size && bucket->IsReadable(i); ++i)
\* from slot i on: the pairs whose hash under local_mask equals high_bits
\* go to the image bucket
RECURSIVE Migrate(_, _, _, _, _, _)
Migrate(b, image, i, size, local_mask_bits, high_bits) ==
    IF ~(i < size /\ IsReadable(b, i))
    THEN [bucket |-> b, image |-> image]
    ELSE IF Hash(KeyAt(b, i)) % (2 ^ local_mask_bits) = high_bits
    THEN Migrate(RemoveAt(b, i),
                 BucketInsert(image, KeyAt(b, i), ValueAt(b, i)).bucket,
                 i + 1, size, local_mask_bits, high_bits)
    ELSE Migrate(b, image, i + 1, size, local_mask_bits, high_bits)

\* SplitInsert: will this pass of the loop call Grow, NewBucketPage
SplitGrows(dir, buckets, key) ==
    LET bucket_idx == KeyToDirectoryIndex(key, dir)
    IN  /\ IsFull(buckets[GetBucketPageId(dir, bucket_idx)])
        /\ GetLocalDepth(dir, bucket_idx) >= GetGlobalDepth(dir)

SplitAllocates(dir, buckets, key) ==
    IsFull(buckets[KeyToPageId(key, dir)])

\* SplitInsert: one pass of the loop "while (!inserted)"
SplitInsert(dir, buckets, key, value) ==
    LET bucket_idx == KeyToDirectoryIndex(key, dir)
        bucket_page_id == GetBucketPageId(dir, bucket_idx)
        b == buckets[bucket_page_id]
    IN  IF ~IsFull(b)
        THEN LET r == BucketInsert(b, key, value)
             IN  [dir |-> dir,
                  buckets |-> [buckets EXCEPT ![bucket_page_id] = r.bucket],
                  ok |-> r.ok, inserted |-> TRUE]
        ELSE LET grown == IF GetLocalDepth(dir, bucket_idx)
                               >= GetGlobalDepth(dir)
                          THEN Grow(dir) ELSE dir
                 image_bucket_idx == GetSplitImageIndex(grown, bucket_idx)
                 image_bucket_page_id == Len(buckets) + 1
                 bound == SetBucketPageId(grown, image_bucket_idx,
                                          image_bucket_page_id)
                 split == SetLocalDepth(bound, image_bucket_idx,
                                        GetLocalDepth(bound, bucket_idx))
                 m == Migrate(b, ZeroBucket, 0, NumReadable(b),
                              GetLocalDepth(split, bucket_idx),
                              GetLocalHighBits(split, image_bucket_idx))
             IN  [dir |-> split,
                  buckets |-> Append([buckets EXCEPT
                                         ![bucket_page_id] = m.bucket],
                                     m.image),
                  ok |-> FALSE, inserted |-> FALSE]

\* a pass of Merge that merges an empty bucket without comparing the local
\* depth of its split image
MergeSlot_IgnoresImageDepth(dir, buckets, bucket_idx) ==
    LET bucket_page_id == GetBucketPageId(dir, bucket_idx)
        image_bucket_idx == GetSplitImageIndex(dir, bucket_idx)
        image_bucket_page_id == GetBucketPageId(dir, image_bucket_idx)
        folded == SetBucketPageId(
                      DecrLocalDepth(DecrLocalDepth(dir, bucket_idx),
                                     image_bucket_idx),
                      bucket_idx, image_bucket_page_id)
        same(j) == /\ j < Size(folded)
                   /\ j # bucket_idx
                   /\ j # image_bucket_idx
                   /\ folded.bucket_page_ids[j]
                         \in {bucket_page_id, image_bucket_page_id}
        rebound ==
            [folded EXCEPT
                !.local_depths =
                    [j \in DirSlots |->
                        IF same(j)
                        THEN GetLocalDepth(folded, bucket_idx)
                        ELSE folded.local_depths[j]],
                !.bucket_page_ids =
                    [j \in DirSlots |->
                        IF same(j) THEN image_bucket_page_id
                        ELSE folded.bucket_page_ids[j]]]
        merges == /\ GetLocalDepth(dir, bucket_idx) > 1
                  /\ IsEmpty(buckets[bucket_page_id])
        merged == IF merges THEN rebound ELSE dir
    IN  [dir |-> IF CanShrink(merged) THEN Shrink(merged) ELSE merged,
         merged |-> merges,
         dir_shrunken |-> CanShrink(merged)]

\* Merge, one pass of the loop over the slots (lines 218-243): the slot is
\* merged into its split image, then the directory shrinks if it can; only
\* the directory changes (no page is deleted)
MergeSlot(dir, buckets, bucket_idx) ==
    LET bucket_page_id == GetBucketPageId(dir, bucket_idx)
        bucket_local_depth == GetLocalDepth(dir, bucket_idx)
        image_bucket_idx == GetSplitImageIndex(dir, bucket_idx)
        image_bucket_page_id == GetBucketPageId(dir, image_bucket_idx)
        folded == SetBucketPageId(
                      DecrLocalDepth(DecrLocalDepth(dir, bucket_idx),
                                     image_bucket_idx),
                      bucket_idx, image_bucket_page_id)
        same(j) == /\ j < Size(folded)
                   /\ j # bucket_idx
                   /\ j # image_bucket_idx
                   /\ folded.bucket_page_ids[j]
                         \in {bucket_page_id, image_bucket_page_id}
        rebound ==
            [folded EXCEPT
                !.local_depths =
                    [j \in DirSlots |->
                        IF same(j)
                        THEN GetLocalDepth(folded, bucket_idx)
                        ELSE folded.local_depths[j]],
                !.bucket_page_ids =
                    [j \in DirSlots |->
                        IF same(j) THEN image_bucket_page_id
                        ELSE folded.bucket_page_ids[j]]]
        merges == /\ bucket_local_depth > 1
                  /\ IsEmpty(buckets[bucket_page_id])
                  /\ GetLocalDepth(dir, image_bucket_idx)
                        = bucket_local_depth
        merged == IF merges THEN rebound ELSE dir
    IN  [dir |-> IF CanShrink(merged) THEN Shrink(merged) ELSE merged,
         merged |-> merges,
         dir_shrunken |-> CanShrink(merged)]

\* Merge, the loop over the slots from bucket_idx on
RECURSIVE Merge(_, _, _)
Merge(dir, buckets, bucket_idx) ==
    IF ~(bucket_idx < Size(dir)) THEN dir
    ELSE Merge(MergeSlot(dir, buckets, bucket_idx).dir, buckets,
               bucket_idx + 1)

\* ExtendibleHashTable::Remove
Remove(dir, buckets, key, value) ==
    LET bucket_page_id == KeyToPageId(key, dir)
        r == BucketRemove(buckets[bucket_page_id], key, value)
        removed == [buckets EXCEPT ![bucket_page_id] = r.bucket]
    IN  [dir |-> IF r.ok /\ IsEmpty(r.bucket)
                 THEN Merge(dir, removed, 0) ELSE dir,
         buckets |-> removed,
         ok |-> r.ok]

(***************************************************************************)
(* The calls an index operation makes on the buffer pool and the accesses *)
(* it makes through the page pointers, in program order.  A call is       *)
(* NewPage, FetchPage or UnpinPage of a page id (UnpinPage with its       *)
(* is_dirty argument); an access is a read or a write of the bytes of a   *)
(* page; "return" ends the calls of an operation that returns.  The       *)
(* directory page is page 0 (directory_page_id_).                          *)
(***************************************************************************)
PageCall(call, page_id, is_dirty) ==
    [call |-> call, page_id |-> page_id, is_dirty |-> is_dirty]

\* the constructor (lines 30-52)
ConstructCalls ==
    <<PageCall("NewPage", 0, FALSE), PageCall("write", 0, FALSE),
      PageCall("NewPage", 1, FALSE), PageCall("write", 0, FALSE),
      PageCall("NewPage", 2, FALSE), PageCall("write", 0, FALSE),
      PageCall("UnpinPage", 0, TRUE),
      PageCall("UnpinPage", 1, FALSE),
      PageCall("UnpinPage", 2, FALSE),
      PageCall("return", 0, FALSE)>>

\* GetValue (lines 115-120)
GetValueCalls(dir, buckets, key) ==
    LET bucket_page_id == KeyToPageId(key, dir)
    IN  <<PageCall("FetchPage", 0, FALSE), PageCall("read", 0, FALSE),
          PageCall("FetchPage", bucket_page_id, FALSE),
          PageCall("read", bucket_page_id, FALSE),
          PageCall("UnpinPage", 0, FALSE),
          PageCall("UnpinPage", bucket_page_id, FALSE),
          PageCall("return", 0, FALSE)>>

\* SplitInsert from a pass of its loop on (lines 151-190), dir_grown as the
\* earlier passes left it; the calls stop without "return" where the model
\* has no page or no directory slot left for the pass
RECURSIVE SplitInsertCalls(_, _, _, _, _)
SplitInsertCalls(dir, buckets, key, value, dir_grown) ==
    LET bucket_idx == KeyToDirectoryIndex(key, dir)
        bucket_page_id == GetBucketPageId(dir, bucket_idx)
        image_bucket_page_id == Len(buckets) + 1
        r == SplitInsert(dir, buckets, key, value)
        grows == SplitGrows(dir, buckets, key)
        bucket_overflow_count ==
            NumReadable(buckets[bucket_page_id])
                - NumReadable(r.buckets[bucket_page_id])
        fetched == <<PageCall("read", 0, FALSE),
                     PageCall("FetchPage", bucket_page_id, FALSE),
                     PageCall("read", bucket_page_id, FALSE)>>
    IN  IF r.inserted
        THEN fetched
             \o (IF r.ok THEN <<PageCall("write", bucket_page_id, FALSE)>>
                 ELSE <<>>)
             \o <<PageCall("UnpinPage", bucket_page_id, FALSE),
                  PageCall("UnpinPage", 0, dir_grown),
                  PageCall("return", 0, FALSE)>>
        ELSE IF \/ Len(buckets) >= MaxBucketPages
                \/ grows /\ GetGlobalDepth(dir) >= MAX_DEPTH
        THEN fetched
        ELSE fetched
             \o <<PageCall("write", 0, FALSE),
                  PageCall("NewPage", image_bucket_page_id, FALSE)>>
             \o (IF bucket_overflow_count # 0
                 THEN <<PageCall("write", image_bucket_page_id, FALSE),
                        PageCall("write", bucket_page_id, FALSE)>>
                 ELSE <<>>)
             \o <<PageCall("UnpinPage", image_bucket_page_id, TRUE),
                  PageCall("UnpinPage", bucket_page_id,
                           bucket_overflow_count # 0)>>
             \o SplitInsertCalls(r.dir, r.buckets, key, value,
                                 dir_grown \/ grows)

\* Insert (lines 128-142), with the SplitInsert it yields to
InsertCalls(dir, buckets, key, value) ==
    LET bucket_page_id == KeyToPageId(key, dir)
        r == Insert(dir, buckets, key, value)
        fetched == <<PageCall("FetchPage", 0, FALSE),
                     PageCall("read", 0, FALSE),
                     PageCall("FetchPage", bucket_page_id, FALSE),
                     PageCall("read", bucket_page_id, FALSE)>>
    IN  IF ~r.split
        THEN fetched
             \o (IF r.ok THEN <<PageCall("write", bucket_page_id, FALSE)>>
                 ELSE <<>>)
             \o <<PageCall("UnpinPage", 0, FALSE),
                  PageCall("UnpinPage", bucket_page_id, r.ok),
                  PageCall("return", 0, FALSE)>>
        ELSE fetched
             \o <<PageCall("UnpinPage", 0, FALSE),
                  PageCall("UnpinPage", bucket_page_id, FALSE),
                  PageCall("FetchPage", 0, FALSE)>>
             \o SplitInsertCalls(dir, buckets, key, value, FALSE)

\* Merge from slot bucket_idx on (lines 217-245), dir_shrunken as the
\* earlier passes left it
RECURSIVE MergeCalls(_, _, _, _)
MergeCalls(dir, buckets, bucket_idx, dir_shrunken) ==
    IF ~(bucket_idx < Size(dir))
    THEN <<PageCall("read", 0, FALSE),
           PageCall("UnpinPage", 0, dir_shrunken)>>
    ELSE LET bucket_page_id == GetBucketPageId(dir, bucket_idx)
             r == MergeSlot(dir, buckets, bucket_idx)
         IN  <<PageCall("read", 0, FALSE),
               PageCall("FetchPage", bucket_page_id, FALSE)>>
             \o (IF GetLocalDepth(dir, bucket_idx) > 1
                 THEN <<PageCall("read", bucket_page_id, FALSE)>>
                 ELSE <<>>)
             \o (IF r.dir # dir THEN <<PageCall("write", 0, FALSE)>>
                 ELSE <<>>)
             \o <<PageCall("UnpinPage", bucket_page_id, FALSE)>>
             \o MergeCalls(r.dir, buckets, bucket_idx + 1,
                           dir_shrunken \/ r.dir_shrunken)

\* Remove (lines 198-206), with the Merge it yields to
RemoveCalls(dir, buckets, key, value) ==
    LET bucket_page_id == KeyToPageId(key, dir)
        r == BucketRemove(buckets[bucket_page_id], key, value)
        removed == [buckets EXCEPT ![bucket_page_id] = r.bucket]
    IN  <<PageCall("FetchPage", 0, FALSE), PageCall("read", 0, FALSE),
          PageCall("FetchPage", bucket_page_id, FALSE),
          PageCall("read", bucket_page_id, FALSE)>>
        \o (IF r.ok THEN <<PageCall("write", bucket_page_id, FALSE)>>
            ELSE <<>>)
        \o <<PageCall("UnpinPage", 0, FALSE),
             PageCall("UnpinPage", bucket_page_id, r.ok)>>
        \o (IF r.ok THEN <<PageCall("read", bucket_page_id, FALSE)>>
            ELSE <<>>)
        \o (IF r.ok /\ IsEmpty(r.bucket)
            THEN <<PageCall("FetchPage", 0, FALSE)>>
                 \o MergeCalls(dir, removed, 0, FALSE)
            ELSE <<>>)
        \o <<PageCall("return", 0, FALSE)>>

(***************************************************************************)
(* Lock manager (src/concurrency/lock_manager.cpp), for one rid.  Every   *)
(* method holds latch_ from its first statement to its return or to its   *)
(* cv_.wait, and from the wake-up to its return, so a call is one step up *)
(* to the wait and one step after it.  A method is a function of the      *)
(* transactions and the queue of the rid: st.txn and st.rq.                *)
(* LockRequestQueue is declared in a header that is not part of the       *)
(* sources: its fields and insert follow section 4.6 of the               *)
(* specification.  A failing call throws TransactionAbortException; the   *)
(* exception is the field err of the state a method leaves.               *)
(***************************************************************************)
Txns == 1 .. MaxTxns

\* the rid the model locks
Rids == {"r"}

\* the isolation level of a transaction is fixed by its id
IsolationLevelOf(txn_id) ==
    CASE txn_id % 3 = 1 -> "READ_COMMITTED"
      [] txn_id % 3 = 2 -> "REPEATABLE_READ"
      [] OTHER -> "READ_UNCOMMITTED"

\* a LockRequestQueue as lock_table_.emplace constructs it
EmptyQueue ==
    [request_queue |-> <<>>, refcount |-> 0, waiting |-> FALSE,
     upgrading |-> FALSE]

\* LockRequestQueue::insert: the request goes to the end of the queue
QueueInsert(rq, txn_id, lock_mode) ==
    [rq EXCEPT !.request_queue =
        Append(@, [txn_id |-> txn_id, lock_mode |-> lock_mode,
                   granted |-> FALSE])]

\* LockRequestQueue::find: the position of the first request of the
\* transaction, 0 for nullptr
QueueFind(rq, txn_id) ==
    LET hits == {i \in DOMAIN rq.request_queue :
                    rq.request_queue[i].txn_id = txn_id}
    IN  IF hits = {} THEN 0
        ELSE CHOOSE i \in hits : \A j \in hits : i <= j

\* LockRequestQueue::remove: a copy of the first request of the
\* transaction, {INVALID_TXN_ID, SHARED} when it has none; the queue keeps
\* the request
QueueRemove(rq, txn_id) ==
    IF QueueFind(rq, txn_id) = 0
    THEN [txn_id |-> INVALID_PAGE_ID, lock_mode |-> "SHARED",
          granted |-> FALSE]
    ELSE rq.request_queue[QueueFind(rq, txn_id)]

\* if (auto request = rq.find(txn_id); request != nullptr)
\*     request->granted_ = granted, request->lock_mode_ = lock_mode
SetFound(rq, txn_id, lock_mode, granted) ==
    LET i == QueueFind(rq, txn_id)
    IN  IF i = 0 THEN rq
        ELSE [rq EXCEPT !.request_queue[i].granted = granted,
                        !.request_queue[i].lock_mode = lock_mode]

\* request->granted_ = true on the first request of the transaction
Grant(rq, txn_id) ==
    LET i == QueueFind(rq, txn_id)
    IN  IF i = 0 THEN rq ELSE [rq EXCEPT !.request_queue[i].granted = TRUE]

\* LockManager::Prevent, the loop from request i on: every granted request
\* of the requester itself aborts the requester and takes its grant back
RECURSIVE Prevent(_, _, _)
Prevent(st, txn_id, i) ==
    IF i > Len(st.rq.request_queue) THEN st
    ELSE LET request == st.rq.request_queue[i]
         IN  IF request.granted /\ request.txn_id = txn_id
             THEN Prevent(
                      [txn |-> [st.txn EXCEPT ![txn_id].state = "ABORTED"],
                       rq |-> IF request.lock_mode = "SHARED"
                              THEN [st.rq EXCEPT !.refcount = @ - 1]
                              ELSE [st.rq EXCEPT !.waiting = FALSE]],
                      txn_id, i + 1)
             ELSE Prevent(st, txn_id, i + 1)

\* the predicates of the three cv_.wait calls
CanProceed(st, txn_id, method) ==
    \/ st.txn[txn_id].state = "ABORTED"
    \/ IF method = "LockShared" THEN ~st.rq.waiting
       ELSE ~st.rq.waiting /\ st.rq.refcount = 0

\* LockShared after the wait
LockSharedGranted(st, txn_id, rid) ==
    IF st.txn[txn_id].state = "ABORTED"
    THEN st @@ [err |-> "DEADLOCK", blocked |-> FALSE]
    ELSE [txn |-> [st.txn EXCEPT ![txn_id].shared_lock_set = @ \cup {rid}],
          rq |-> Grant([st.rq EXCEPT !.refcount = @ + 1], txn_id),
          err |-> "none", blocked |-> FALSE]

\* LockShared with the check of the state before that of the isolation level
LockShared_StateFirst(st, txn_id, rid) ==
    IF st.txn[txn_id].state = "SHRINKING"
    THEN [txn |-> [st.txn EXCEPT ![txn_id].state = "ABORTED"], rq |-> st.rq,
          err |-> "LOCK_ON_SHRINKING", blocked |-> FALSE]
    ELSE IF IsolationLevelOf(txn_id) = "READ_UNCOMMITTED"
    THEN [txn |-> [st.txn EXCEPT ![txn_id].state = "ABORTED"], rq |-> st.rq,
          err |-> "LOCKSHARED_ON_READ_UNCOMMITTED", blocked |-> FALSE]
    ELSE LET queued == [st EXCEPT !.rq = QueueInsert(@, txn_id, "SHARED")]
             checked == IF queued.rq.waiting
                        THEN Prevent(queued, txn_id, 1) ELSE queued
         IN  IF queued.rq.waiting /\ ~CanProceed(checked, txn_id, "LockShared")
             THEN checked @@ [err |-> "none", blocked |-> TRUE]
             ELSE LockSharedGranted(checked, txn_id, rid)

\* LockShared up to the wait; blocked when the call waits
LockShared(st, txn_id, rid) ==
    IF IsolationLevelOf(txn_id) = "READ_UNCOMMITTED"
    THEN [txn |-> [st.txn EXCEPT ![txn_id].state = "ABORTED"], rq |-> st.rq,
          err |-> "LOCKSHARED_ON_READ_UNCOMMITTED", blocked |-> FALSE]
    ELSE IF st.txn[txn_id].state = "SHRINKING"
    THEN [txn |-> [st.txn EXCEPT ![txn_id].state = "ABORTED"], rq |-> st.rq,
          err |-> "LOCK_ON_SHRINKING", blocked |-> FALSE]
    ELSE LET queued == [st EXCEPT !.rq = QueueInsert(@, txn_id, "SHARED")]
             checked == IF queued.rq.waiting
                        THEN Prevent(queued, txn_id, 1) ELSE queued
         IN  IF queued.rq.waiting /\ ~CanProceed(checked, txn_id, "LockShared")
             THEN checked @@ [err |-> "none", blocked |-> TRUE]
             ELSE LockSharedGranted(checked, txn_id, rid)

\* LockExclusive after the wait
LockExclusiveGranted(st, txn_id, rid) ==
    IF st.txn[txn_id].state = "ABORTED"
    THEN st @@ [err |-> "DEADLOCK", blocked |-> FALSE]
    ELSE [txn |-> [st.txn EXCEPT ![txn_id].exclusive_lock_set = @ \cup {rid}],
          rq |-> Grant([st.rq EXCEPT !.waiting = TRUE], txn_id),
          err |-> "none", blocked |-> FALSE]

\* LockExclusive without the check of the SHRINKING state
LockExclusive_IgnoresShrinking(st, txn_id, rid) ==
    LET queued == [st EXCEPT !.rq = QueueInsert(@, txn_id, "EXCLUSIVE")]
        conflict == queued.rq.waiting \/ queued.rq.refcount > 0
        checked == IF conflict THEN Prevent(queued, txn_id, 1) ELSE queued
    IN  IF conflict /\ ~CanProceed(checked, txn_id, "LockExclusive")
        THEN checked @@ [err |-> "none", blocked |-> TRUE]
        ELSE LockExclusiveGranted(checked, txn_id, rid)

\* LockExclusive up to the wait
LockExclusive(st, txn_id, rid) ==
    IF st.txn[txn_id].state = "SHRINKING"
    THEN [txn |-> [st.txn EXCEPT ![txn_id].state = "ABORTED"], rq |-> st.rq,
          err |-> "LOCK_ON_SHRINKING", blocked |-> FALSE]
    ELSE LET queued == [st EXCEPT !.rq = QueueInsert(@, txn_id, "EXCLUSIVE")]
             conflict == queued.rq.waiting \/ queued.rq.refcount > 0
             checked == IF conflict THEN Prevent(queued, txn_id, 1)
                        ELSE queued
         IN  IF conflict /\ ~CanProceed(checked, txn_id, "LockExclusive")
             THEN checked @@ [err |-> "none", blocked |-> TRUE]
             ELSE LockExclusiveGranted(checked, txn_id, rid)

\* LockUpgrade after the wait; the abort path leaves upgrading_ as it is
LockUpgradeGranted(st, txn_id, rid) ==
    IF st.txn[txn_id].state = "ABORTED"
    THEN st @@ [err |-> "DEADLOCK", blocked |-> FALSE]
    ELSE [txn |-> [st.txn EXCEPT ![txn_id].exclusive_lock_set = @ \cup {rid}],
          rq |-> Grant([st.rq EXCEPT !.upgrading = FALSE, !.waiting = TRUE],
                       txn_id),
          err |-> "none", blocked |-> FALSE]

\* LockUpgrade up to the wait
LockUpgrade(st, txn_id, rid) ==
    IF st.txn[txn_id].state = "SHRINKING"
    THEN [txn |-> [st.txn EXCEPT ![txn_id].state = "ABORTED"], rq |-> st.rq,
          err |-> "LOCK_ON_SHRINKING", blocked |-> FALSE]
    ELSE IF st.rq.upgrading
    THEN [txn |-> [st.txn EXCEPT ![txn_id].state = "ABORTED"], rq |-> st.rq,
          err |-> "UPGRADE_CONFLICT", blocked |-> FALSE]
    ELSE LET asked ==
                 [txn |-> [st.txn EXCEPT
                              ![txn_id].shared_lock_set = @ \ {rid}],
                  rq |-> SetFound([st.rq EXCEPT !.refcount = @ - 1],
                                  txn_id, "EXCLUSIVE", FALSE)]
             conflict == asked.rq.waiting \/ asked.rq.refcount > 0
             checked == IF conflict
                        THEN [Prevent(asked, txn_id, 1)
                                 EXCEPT !.rq.upgrading = TRUE]
                        ELSE asked
         IN  IF conflict /\ ~CanProceed(checked, txn_id, "LockUpgrade")
             THEN checked @@ [err |-> "none", blocked |-> TRUE]
             ELSE LockUpgradeGranted(checked, txn_id, rid)

\* a waiter that a notify_all woke and whose predicate holds
AfterWait(st, txn_id, rid, method) ==
    CASE method = "LockShared" -> LockSharedGranted(st, txn_id, rid)
      [] method = "LockExclusive" -> LockExclusiveGranted(st, txn_id, rid)
      [] OTHER -> LockUpgradeGranted(st, txn_id, rid)

\* Unlock; notify is true when it calls cv_.notify_all
Unlock(st, txn_id, rid) ==
    LET mode == QueueRemove(st.rq, txn_id).lock_mode
        shrinks == /\ ~(/\ mode = "SHARED"
                        /\ IsolationLevelOf(txn_id) = "READ_COMMITTED")
                   /\ st.txn[txn_id].state = "GROWING"
        released == [st.txn EXCEPT
                        ![txn_id].shared_lock_set = @ \ {rid},
                        ![txn_id].exclusive_lock_set = @ \ {rid},
                        ![txn_id].state = IF shrinks THEN "SHRINKING" ELSE @]
    IN  IF mode = "SHARED"
        THEN [txn |-> released,
              rq |-> [st.rq EXCEPT !.refcount = @ - 1],
              notify |-> st.rq.refcount - 1 = 0]
        ELSE [txn |-> released,
              rq |-> [st.rq EXCEPT !.waiting = FALSE],
              notify |-> TRUE]

(***************************************************************************)
(* Construction.                                                           *)
(***************************************************************************)
\* the state every constructor leaves, the shard apart
InitPool ==
    /\ next_page_id = instance_index
    /\ pages = [f \in Frames |-> [page_id |-> INVALID_PAGE_ID, pin_count |-> 0,
                                  is_dirty |-> FALSE, data |-> "zero"]]
    /\ page_table = <<>>
    /\ free_list = [i \in 1 .. PoolSize |-> i - 1]
    /\ lru_list = <<>>
    /\ disk = [p \in PageIds |-> "zero"]
    /\ unflushed = {}
    /\ allocs = 0

\* LRUReplacer(num_pages): an empty list, no call made yet
InitReplacer ==
    /\ rep_list = <<>>
    /\ rep_blocked = FALSE
    /\ rep_order = <<>>
    /\ rep_last = [op |-> "LRUReplacer", frame |-> INVALID_PAGE_ID,
                   ok |-> TRUE]

\* no replacer is used on its own
NoReplacer ==
    /\ InitReplacer
    /\ rep_ndebug = FALSE

\* no bucket page is used on its own
NoBucket == bucket = ZeroBucket

\* ExtendibleHashTable(name, buffer_pool_manager, comparator, hash_fn)
InitIndex ==
    /\ ht_dir = Construct.dir
    /\ ht_buckets = Construct.buckets
    /\ ht_pc = "idle"
    /\ ht_arg = <<0, 0>>
    /\ ht_present = {}
    /\ ht_removed = {}

\* no hash index is used: the state of a new one
NoIndex == InitIndex

\* LockManager(): transactions that have just begun, no request yet
InitLocks ==
    /\ lm_txn = [t \in Txns |-> [state |-> "GROWING",
                                  shared_lock_set |-> {},
                                  exclusive_lock_set |-> {}]]
    /\ lm_rq = EmptyQueue
    /\ lm_pc = [t \in Txns |-> "idle"]
    /\ lm_notified = {}

\* no lock manager is used: the state of a new one
NoLocks == InitLocks

\* no FlushAllPgsImp is inside its loop
NoFlushAll == flush_all = [running |-> FALSE, todo |-> {}, table |-> <<>>]

\* the objects the buffer pool specifications leave unused
PoolOnly ==
    /\ NoReplacer
    /\ NoBucket
    /\ NoIndex
    /\ NoLocks
    /\ NoFlushAll

\* BufferPoolManagerInstance(pool_size, disk_manager, log_manager)
Init ==
    /\ num_instances = 1
    /\ instance_index = 0
    /\ InitPool
    /\ PoolOnly

\* BufferPoolManagerInstance(pool_size, num_instances, instance_index, ...)
InitShard ==
    /\ num_instances \in 1 .. MaxInstances
    /\ instance_index \in 0 .. (num_instances - 1)
    /\ InitPool
    /\ PoolOnly

(***************************************************************************)
(* Actions: one call of a public operation.                                *)
(***************************************************************************)
\* the pool and the disk take the state a method left
Becomes(r) ==
    /\ pages' = r.pages
    /\ page_table' = r.page_table
    /\ free_list' = r.free_list
    /\ lru_list' = r.lru_list
    /\ next_page_id' = r.next_page_id
    /\ disk' = DiskAfter(disk, r.writes)
    /\ UNCHANGED config
    /\ UNCHANGED notPool

\* the pages owed a write after a call that made the WritePage calls
\* `writes` and (for an UnpinPage(p, true) that succeeded) marked `dirtied`
Owes(dirtied, writes) ==
    unflushed' = (unflushed \cup dirtied) \ Written(writes)

\* NewPage; the model stops allocating after MaxAlloc ids
NewPage ==
    LET r == NewPgImp
    IN  /\ r.ok => allocs < MaxAlloc
        /\ Becomes(r)
        /\ Owes({}, r.writes)
        /\ allocs' = IF r.ok THEN allocs + 1 ELSE allocs

\* FetchPage of an id NewPage handed out; hits stop at MaxPin pins
FetchPage(page_id) ==
    LET r == FetchPgImp(page_id)
    IN  /\ page_id \in DOMAIN page_table
            => pages[page_table[page_id]].pin_count < MaxPin
        /\ Becomes(r)
        /\ Owes({}, r.writes)
        /\ UNCHANGED allocs

UnpinPage(page_id, is_dirty) ==
    LET r == UnpinPgImp(page_id, is_dirty)
    IN  /\ Becomes(r)
        /\ Owes(IF r.ok /\ is_dirty THEN {page_id} ELSE {}, r.writes)
        /\ UNCHANGED allocs

FlushPage(page_id) ==
    LET r == FlushPgImp(Current, page_id)
    IN  /\ Becomes(r)
        /\ Owes({}, r.writes)
        /\ UNCHANGED allocs

FlushAllPages ==
    LET r == FlushAllPgsImp
    IN  /\ Becomes(r)
        /\ Owes({}, r.writes)
        /\ UNCHANGED allocs

DeletePage(page_id) ==
    LET r == DeletePgImp(page_id)
    IN  /\ Becomes(r)
        /\ Owes({}, r.writes)
        /\ UNCHANGED allocs

\* a caller that holds a pinned view of the page stores bytes in it, as the
\* hash index does between FetchPage and UnpinPage
WriteData(page_id, d) ==
    LET target_frame == FindPage(page_table, page_id)
    IN  /\ target_frame # INVALID_PAGE_ID
        /\ pages[target_frame].pin_count > 0
        /\ pages[target_frame].data # d
        /\ pages' = [pages EXCEPT ![target_frame].data = d]
        /\ UNCHANGED <<page_table, free_list, lru_list, next_page_id, config,
                       disk, unflushed, allocs>>
        /\ UNCHANGED notPool

\* the calls on the pool's metadata
Next ==
    \/ NewPage
    \/ \E p \in Allocated : FetchPage(p)
    \/ \E p \in Allocated, d \in BOOLEAN : UnpinPage(p, d)
    \/ \E p \in Allocated : FlushPage(p)
    \/ FlushAllPages
    \/ \E p \in Allocated : DeletePage(p)

\* the same with callers that store bytes in the pages they pin
NextData ==
    \/ Next
    \/ \E p \in Allocated, d \in Data : WriteData(p, d)

\* the default constructor, callers that only pin and unpin
Spec == Init /\ [][Next]_vars

\* the default constructor, callers that also write page bytes
SpecData == Init /\ [][NextData]_vars

\* the calls of callers that create, unpin, flush and delete pages
NextShard ==
    \/ NewPage
    \/ \E p \in Allocated, d \in BOOLEAN : UnpinPage(p, d)
    \/ \E p \in Allocated : FlushPage(p)
    \/ FlushAllPages
    \/ \E p \in Allocated : DeletePage(p)

\* an instance of a parallel pool, every shard of up to MaxInstances
SpecShard == InitShard /\ [][NextShard]_vars

(***************************************************************************)
(* The LRU replacer on its own: calls of Victim, Pin and Unpin on frame   *)
(* ids 1 .. LruSize + 1, so that one frame more than lru_size_ can be     *)
(* unpinned.  Every method holds latch_ for its whole body, so one call   *)
(* is one action; a call blocked inside Unpin keeps latch_, and no other  *)
(* call proceeds.                                                          *)
(***************************************************************************)
RepFrames == 1 .. (LruSize + 1)

\* no buffer pool is used
NoPool ==
    /\ num_instances = 1
    /\ instance_index = 0
    /\ InitPool
    /\ NoFlushAll

\* LRUReplacer(LruSize), built with or without NDEBUG
InitLRU ==
    /\ InitReplacer
    /\ rep_ndebug \in BOOLEAN
    /\ NoPool
    /\ NoBucket
    /\ NoIndex
    /\ NoLocks

\* a sequence without the frame f
Without(list, f) == SelectSeq(list, LAMBDA x : x # f)

\* Victim(&frame_id)
RepVictim ==
    LET r == LRUVictim(rep_list)
    IN  /\ ~rep_blocked
        /\ rep_list' = r.list
        /\ rep_order' = IF r.ok THEN Without(rep_order, r.frame) ELSE rep_order
        /\ rep_last' = [op |-> "Victim", frame |-> r.frame, ok |-> r.ok]
        /\ UNCHANGED <<rep_ndebug, rep_blocked>>
        /\ UNCHANGED notReplacer

\* Pin(frame_id)
RepPin(f) ==
    /\ ~rep_blocked
    /\ rep_list' = LRUPin(rep_list, f)
    /\ rep_order' = Without(rep_order, f)
    /\ rep_last' = [op |-> "Pin", frame |-> f, ok |-> TRUE]
    /\ UNCHANGED <<rep_ndebug, rep_blocked>>
    /\ UNCHANGED notReplacer

\* Unpin(frame_id); ok is "the call returned".  An Unpin is successful when
\* it appended the frame.
RepUnpin(f) ==
    LET stuck == LRUUnpinOverflows(rep_list, f, LruSize) /\ ~rep_ndebug
    IN  /\ ~rep_blocked
        /\ rep_list' = LRUUnpin(rep_list, f, LruSize)
        /\ rep_blocked' = stuck
        /\ rep_order' = IF f \in Range(rep_list) THEN rep_order
                        ELSE Append(Without(rep_order, f), f)
        /\ rep_last' = [op |-> "Unpin", frame |-> f, ok |-> ~stuck]
        /\ UNCHANGED rep_ndebug
        /\ UNCHANGED notReplacer

NextLRU ==
    \/ RepVictim
    \/ \E f \in RepFrames : RepPin(f)
    \/ \E f \in RepFrames : RepUnpin(f)

SpecLRU == InitLRU /\ [][NextLRU]_vars

(***************************************************************************)
(* Properties of the buffer pool.                                          *)
(***************************************************************************)
\* the frames that hold a page of the page table
Resident(f) ==
    /\ pages[f].page_id \in DOMAIN page_table
    /\ page_table[pages[f].page_id] = f

\* a method left the pool's metadata and the disk as they were
Untouched(r) ==
    /\ r.pages = pages
    /\ r.page_table = page_table
    /\ r.free_list = free_list
    /\ r.lru_list = lru_list
    /\ r.next_page_id = next_page_id
    /\ r.writes = <<>>

\* C1: every frame the replacer tracks holds a page of the page table and
\* has pin_count 0, so that no pinned frame is tracked by the replacer.
C1_ReplacerTracksUnpinnedResident ==
    \A f \in Range(lru_list) : Resident(f) /\ pages[f].pin_count = 0

\* C2: the page table is a bijection over the resident pages: a page of the
\* table maps to a frame that holds it, no two pages map to one frame, and
\* a frame that holds a page id is the frame the table gives for that id.
C2_PageTableBijection ==
    /\ \A p \in DOMAIN page_table :
          page_table[p] \in Frames /\ pages[page_table[p]].page_id = p
    /\ \A p, q \in DOMAIN page_table : page_table[p] = page_table[q] => p = q
    /\ \A f \in Frames :
          pages[f].page_id # INVALID_PAGE_ID => Resident(f)

\* C2 witness: the pool is full after more allocations than it has frames,
\* so some frame has been handed from one page to another.
C2_FrameReused ==
    /\ Cardinality(DOMAIN page_table) = PoolSize
    /\ free_list = <<>>
    /\ allocs > PoolSize
    /\ \E p \in Allocated : p \notin DOMAIN page_table

\* C3: a page unpinned with is_dirty = true and not written to disk since
\* is still resident: its frame is not reused (nor freed) before the write.
C3_DirtyWrittenBeforeReuse ==
    \A p \in unflushed :
        /\ p \in DOMAIN page_table
        /\ pages[page_table[p]].page_id = p

\* C3 witness: a page owed a write sits in the only frame that can become a
\* victim, and the unpin that makes the frame the next victim writes it.
C3_OwedPageWrittenAtLastUnpin ==
    \E p \in unflushed :
        LET r == UnpinPgImp(p, FALSE)
        IN  /\ free_list = <<>>
            /\ r.ok
            /\ p \in Written(r.writes)
            /\ FindPage(page_table, p) # INVALID_PAGE_ID
            /\ r.lru_list = <<page_table[p]>>

\* C4: NewPage fails exactly when the free list is empty and no resident
\* frame has pin_count 0, and a page it returns is pinned.
C4_NewPageFailsIffNoFrame ==
    LET r == NewPgImp
    IN  /\ (~r.ok) <=> /\ free_list = <<>>
                       /\ \A f \in Frames :
                             ~(Resident(f) /\ pages[f].pin_count = 0)
        /\ r.ok => r.pages[r.page_table[r.page_id]].pin_count > 0

\* the frame a method left the page in
FrameIn(r, page_id) == r.page_table[page_id]

\* C5: a page NewPage or a FetchPage miss returns has pin_count 1 and is
\* clean, a FetchPage hit adds 1 to the pin count, and in all three cases
\* the frame is not in the replacer afterwards.
C5_AcquisitionPinsOnce ==
    /\ LET r == NewPgImp
       IN  r.ok =>
             /\ r.pages[FrameIn(r, r.page_id)].pin_count = 1
             /\ ~r.pages[FrameIn(r, r.page_id)].is_dirty
             /\ FrameIn(r, r.page_id) \notin Range(r.lru_list)
    /\ \A p \in Allocated :
          LET r == FetchPgImp(p)
          IN  r.ok =>
                /\ FrameIn(r, p) \notin Range(r.lru_list)
                /\ IF p \in DOMAIN page_table
                   THEN r.pages[FrameIn(r, p)].pin_count
                           = pages[page_table[p]].pin_count + 1
                   ELSE /\ r.pages[FrameIn(r, p)].pin_count = 1
                        /\ ~r.pages[FrameIn(r, p)].is_dirty

\* no frame that is clean before the call is dirty after it
NoneDirtied(r) ==
    \A f \in Frames : r.pages[f].is_dirty => pages[f].is_dirty

\* C6: only UnpinPage(p, true) turns a clean frame dirty; NewPage, FetchPage
\* (hit or miss) and every other call leave a clean frame clean.
C6_OnlyUnpinDirties ==
    /\ NoneDirtied(NewPgImp)
    /\ NoneDirtied(FlushAllPgsImp)
    /\ \A p \in Allocated :
          /\ NoneDirtied(FetchPgImp(p))
          /\ NoneDirtied(UnpinPgImp(p, FALSE))
          /\ NoneDirtied(FlushPgImp(Current, p))
          /\ NoneDirtied(DeletePgImp(p))

\* C7: UnpinPage fails and changes nothing when the page is not resident or
\* its pin_count is 0; otherwise it takes 1 off the pin count, ORs is_dirty
\* into the dirty flag, and puts the frame in the replacer exactly when the
\* pin count reaches 0.
C7_UnpinPage ==
    \A p \in PageIds, d \in BOOLEAN :
        LET r == UnpinPgImp(p, d)
            f == FindPage(page_table, p)
        IN  IF f = INVALID_PAGE_ID \/ pages[f].pin_count = 0
            THEN ~r.ok /\ Untouched(r)
            ELSE /\ r.ok
                 /\ r.pages[f].pin_count = pages[f].pin_count - 1
                 /\ r.pages[f].is_dirty = (pages[f].is_dirty \/ d)
                 /\ r.pages[f].page_id = p
                 /\ \A g \in Frames \ {f} : r.pages[g] = pages[g]
                 /\ r.page_table = page_table
                 /\ r.free_list = free_list
                 /\ IF r.pages[f].pin_count = 0
                    THEN /\ f \in Range(r.lru_list)
                         /\ Range(r.lru_list) = Range(lru_list) \cup {f}
                    ELSE r.lru_list = lru_list

\* C7 witness: a dirty page with one pin left, not in the replacer, that
\* UnpinPage(p, false) leaves dirty and hands to the replacer.
C7_LastUnpinKeepsDirty ==
    \E p \in DOMAIN page_table :
        LET f == page_table[p]
            r == UnpinPgImp(p, FALSE)
        IN  /\ pages[f].is_dirty
            /\ pages[f].pin_count = 1
            /\ f \notin Range(lru_list)
            /\ r.ok
            /\ r.pages[f].is_dirty
            /\ f \in Range(r.lru_list)

\* C8: FlushPage of a resident page leaves the disk image of the page equal
\* to the frame's bytes, clears the dirty flag and keeps the page in its
\* frame with its pin count; on a page that is not resident it fails and
\* writes nothing.
C8_FlushPageWrites ==
    \A p \in PageIds :
        LET r == FlushPgImp(Current, p)
            f == FindPage(page_table, p)
        IN  IF f = INVALID_PAGE_ID
            THEN ~r.ok /\ Untouched(r)
            ELSE /\ r.ok
                 /\ DiskAfter(disk, r.writes)[p] = pages[f].data
                 /\ ~r.pages[f].is_dirty
                 /\ r.page_table = page_table
                 /\ r.pages[f].page_id = p
                 /\ r.pages[f].pin_count = pages[f].pin_count

\* C9: DeletePage of a pinned resident page fails and changes nothing; of an
\* unpinned resident page it erases the page from the page table and the
\* frame from the replacer, resets the frame and appends it to the free
\* list.
C9_DeletePage ==
    \A p \in DOMAIN page_table :
        LET r == DeletePgImp(p)
            f == page_table[p]
        IN  IF pages[f].pin_count > 0
            THEN ~r.ok /\ Untouched(r)
            ELSE /\ r.ok
                 /\ p \notin DOMAIN r.page_table
                 /\ f \notin Range(r.lru_list)
                 /\ r.pages[f].page_id = INVALID_PAGE_ID
                 /\ ~r.pages[f].is_dirty
                 /\ r.free_list = Append(free_list, f)

\* C10: the n-th successful NewPage of instance k of M returns k + (n-1)*M,
\* an id with id mod M = k, and a NewPage that fails consumes no id.
C10_PageIdAllocation ==
    /\ next_page_id = instance_index + allocs * num_instances
    /\ LET r == NewPgImp
       IN  IF r.ok
           THEN /\ r.page_id = instance_index + allocs * num_instances
                /\ r.page_id % num_instances = instance_index
                /\ r.next_page_id = r.page_id + num_instances
           ELSE /\ r.page_id = INVALID_PAGE_ID
                /\ r.next_page_id = next_page_id

\* C10 witness: instance 1 of 2 has handed out as many ids as it has frames
\* and its next NewPage fails, every page being pinned.
C10_FullPoolRefuses ==
    /\ num_instances = 2
    /\ instance_index = 1
    /\ allocs = PoolSize
    /\ next_page_id = 1 + 2 * PoolSize
    /\ ~NewPgImp.ok


(***************************************************************************)
(* A hash bucket page on its own: calls of Insert, Remove and RemoveAt on *)
(* a page that starts zeroed.                                              *)
(***************************************************************************)
InitBucket ==
    /\ bucket = ZeroBucket
    /\ NoPool
    /\ NoReplacer
    /\ NoIndex
    /\ NoLocks

BktInsert(key, value) ==
    /\ bucket' = BucketInsert(bucket, key, value).bucket
    /\ UNCHANGED notBucket

BktRemove(key, value) ==
    /\ bucket' = BucketRemove(bucket, key, value).bucket
    /\ UNCHANGED notBucket

BktRemoveAt(bucket_idx) ==
    /\ bucket' = RemoveAt(bucket, bucket_idx)
    /\ UNCHANGED notBucket

NextBucket ==
    \/ \E k \in Keys, v \in Values : BktInsert(k, v)
    \/ \E k \in Keys, v \in Values : BktRemove(k, v)
    \/ \E i \in Slots : BktRemoveAt(i)

SpecBucket == InitBucket /\ [][NextBucket]_vars

(***************************************************************************)
(* The hash index: calls of Insert and Remove by one thread.  A call of   *)
(* Insert that yields to SplitInsert takes one action per pass of the     *)
(* loop of SplitInsert, and the call returns with the pass that inserts.  *)
(***************************************************************************)
\* the pairs the callers of the index use: every key with the value 0, and
\* the key 0 with every value
Pairs == (Keys \X {0}) \cup ({0} \X Values)

InitHash ==
    /\ InitIndex
    /\ NoPool
    /\ NoReplacer
    /\ NoBucket
    /\ NoLocks

\* a call returned ok for the pair: the pairs the index was given
Returned(op, pair, ok) ==
    /\ ht_present' = IF ~ok THEN ht_present
                     ELSE IF op = "Insert" THEN ht_present \cup {pair}
                     ELSE ht_present \ {pair}
    /\ ht_removed' = IF ~ok THEN ht_removed
                     ELSE IF op = "Insert" THEN ht_removed \ {pair}
                     ELSE ht_removed \cup {pair}

HtInsert(key, value) ==
    /\ ht_pc = "idle"
    /\ \E r \in {Insert(ht_dir, ht_buckets, key, value)} :
        /\ ht_dir' = r.dir
        /\ ht_buckets' = r.buckets
        /\ ht_pc' = IF r.split THEN "split" ELSE "idle"
        /\ ht_arg' = IF r.split THEN <<key, value>> ELSE <<0, 0>>
        /\ Returned("Insert", <<key, value>>, r.ok)
        /\ UNCHANGED notIndex

\* one pass of the loop of SplitInsert; the model stops allocating bucket
\* pages after MaxBucketPages and growing the directory at MAX_DEPTH
HtSplitInsert ==
    /\ ht_pc = "split"
    /\ SplitAllocates(ht_dir, ht_buckets, ht_arg[1])
          => Len(ht_buckets) < MaxBucketPages
    /\ SplitGrows(ht_dir, ht_buckets, ht_arg[1])
          => GetGlobalDepth(ht_dir) < MAX_DEPTH
    /\ \E r \in {SplitInsert(ht_dir, ht_buckets, ht_arg[1], ht_arg[2])} :
        /\ ht_dir' = r.dir
        /\ ht_buckets' = r.buckets
        /\ ht_pc' = IF r.inserted THEN "idle" ELSE "split"
        /\ ht_arg' = IF r.inserted THEN <<0, 0>> ELSE ht_arg
        /\ Returned("Insert", ht_arg, r.ok)
        /\ UNCHANGED notIndex

HtRemove(key, value) ==
    /\ ht_pc = "idle"
    /\ \E r \in {Remove(ht_dir, ht_buckets, key, value)} :
        /\ ht_dir' = r.dir
        /\ ht_buckets' = r.buckets
        /\ Returned("Remove", <<key, value>>, r.ok)
        /\ UNCHANGED <<ht_pc, ht_arg>>
        /\ UNCHANGED notIndex

NextHash ==
    \/ \E p \in Pairs : HtInsert(p[1], p[2])
    \/ HtSplitInsert
    \/ \E p \in Pairs : HtRemove(p[1], p[2])

SpecHash == InitHash /\ [][NextHash]_vars

(***************************************************************************)
(* The hash index with a second thread.  GetValue, Insert, SplitInsert,   *)
(* Remove and Merge never lock table_latch_ (only GetGlobalDepth and      *)
(* VerifyIntegrity do, lines 253 and 266), so nothing keeps a second      *)
(* thread out while the first is between two passes of the loop of        *)
(* SplitInsert.  The second thread calls a non-splitting Insert or a      *)
(* Remove there; between calls of the first thread its calls are those of *)
(* SpecHash.                                                               *)
(***************************************************************************)
HtOtherInsert(key, value) ==
    /\ ht_pc = "split"
    /\ ~Insert(ht_dir, ht_buckets, key, value).split
    /\ \E r \in {Insert(ht_dir, ht_buckets, key, value)} :
        /\ ht_dir' = r.dir
        /\ ht_buckets' = r.buckets
        /\ Returned("Insert", <<key, value>>, r.ok)
        /\ UNCHANGED <<ht_pc, ht_arg>>
        /\ UNCHANGED notIndex

HtOtherRemove(key, value) ==
    /\ ht_pc = "split"
    /\ \E r \in {Remove(ht_dir, ht_buckets, key, value)} :
        /\ ht_dir' = r.dir
        /\ ht_buckets' = r.buckets
        /\ Returned("Remove", <<key, value>>, r.ok)
        /\ UNCHANGED <<ht_pc, ht_arg>>
        /\ UNCHANGED notIndex

NextThreads ==
    \/ NextHash
    \/ \E p \in Pairs : HtOtherInsert(p[1], p[2])
    \/ \E p \in Pairs : HtOtherRemove(p[1], p[2])

SpecThreads == InitHash /\ [][NextThreads]_vars

(***************************************************************************)
(* Remove and Merge as functions of the directory page.  SplitInsert      *)
(* never raises a local depth, so the directories it writes keep every    *)
(* local depth at 1 and the merge branch of Merge (line 223) finds no     *)
(* slot to merge.  Here the index starts on a directory page whose        *)
(* buckets were split with the depths of section 4.5: global depth        *)
(* MAX_DEPTH, the odd slots on one bucket page at local depth 1, the even *)
(* slots split down to a local depth between 2 and MAX_DEPTH.            *)
(***************************************************************************)
SplitDirectory(local_depth) ==
    [global_depth |-> MAX_DEPTH,
     local_depths |->
         [i \in DirSlots |-> IF i % 2 = 1 THEN 1 ELSE local_depth],
     bucket_page_ids |->
         [i \in DirSlots |->
             IF i % 2 = 1 THEN 1
             ELSE 2 + ((i % (2 ^ local_depth)) \div 2)]]

InitMerge ==
    /\ \E local_depth \in 2 .. MAX_DEPTH :
        /\ ht_dir = SplitDirectory(local_depth)
        /\ ht_buckets = [p \in 1 .. (1 + 2 ^ (local_depth - 1))
                             |-> ZeroBucket]
    /\ ht_pc = "idle"
    /\ ht_arg = <<0, 0>>
    /\ ht_present = {}
    /\ ht_removed = {}
    /\ NoPool
    /\ NoReplacer
    /\ NoBucket
    /\ NoLocks

\* the callers insert and remove three keys of the split slots with the
\* value 0: 0 and 4, which a split at depth 3 separates, and 2
MergePairs == {0, 2, 4} \X {0}

NextMerge ==
    \/ \E p \in MergePairs : HtInsert(p[1], p[2])
    \/ HtSplitInsert
    \/ \E p \in MergePairs : HtRemove(p[1], p[2])

SpecMerge == InitMerge /\ [][NextMerge]_vars

(***************************************************************************)
(* FlushAllPgsImp beside other calls.  Its loop iterates page_table_       *)
(* without latch_; only the FlushPgImp of each entry takes it.  The calls *)
(* of other threads run between two iterations.  flush_all.todo is what   *)
(* the iterator has still to visit and flush_all.table the page table the  *)
(* loop started on.  Once another thread has changed the page table the   *)
(* iterator is invalid: it may yield any entry and the loop may end early. *)
(***************************************************************************)
\* has another thread changed page_table_ since the loop began
Raced == flush_all.running /\ page_table # flush_all.table

\* for (const auto &item : page_table_): the loop begins
FlushAllBegin ==
    /\ ~flush_all.running
    /\ flush_all' = [running |-> TRUE, todo |-> DOMAIN page_table,
                     table |-> page_table]
    /\ UNCHANGED <<bpmVars, repVars, bucket, htVars, lmVars>>

\* FlushPgImp(item.first) of the entry the iterator yields
FlushAllStep(page_id) ==
    /\ flush_all.running
    /\ page_id \in IF Raced THEN flush_all.todo \cup DOMAIN page_table
                    ELSE flush_all.todo
    /\ \E r \in {FlushPgImp(Current, page_id)} :
          /\ pages' = r.pages
          /\ disk' = DiskAfter(disk, r.writes)
          /\ Owes({}, r.writes)
    /\ flush_all' = [flush_all EXCEPT !.todo = @ \ {page_id}]
    /\ UNCHANGED <<page_table, free_list, lru_list, next_page_id, config,
                   allocs>>
    /\ UNCHANGED <<repVars, bucket, htVars, lmVars>>

\* the loop ends: FlushAllPgsImp returns
FlushAllEnd ==
    /\ flush_all.running
    /\ flush_all.todo = {} \/ Raced
    /\ flush_all' = [running |-> FALSE, todo |-> {}, table |-> <<>>]
    /\ UNCHANGED <<bpmVars, repVars, bucket, htVars, lmVars>>

NextFlushAll ==
    \/ NewPage
    \/ \E p \in Allocated : FetchPage(p)
    \/ \E p \in Allocated, d \in BOOLEAN : UnpinPage(p, d)
    \/ \E p \in Allocated : FlushPage(p)
    \/ \E p \in Allocated : DeletePage(p)
    \/ FlushAllBegin
    \/ \E p \in Allocated : FlushAllStep(p)
    \/ FlushAllEnd

\* the default constructor, a thread in FlushAllPgsImp and other callers
SpecFlushAll == Init /\ [][NextFlushAll]_vars

(***************************************************************************)
(* The lock manager: one thread per transaction.  A transaction locks a   *)
(* rid it holds no lock on, upgrades a rid it holds a shared lock on and  *)
(* unlocks a rid it holds a lock on; an aborted transaction only unlocks. *)
(***************************************************************************)
InitLM ==
    /\ InitLocks
    /\ NoPool
    /\ NoReplacer
    /\ NoBucket
    /\ NoIndex

\* the transactions and the queue as a record
Locks == [txn |-> lm_txn, rq |-> lm_rq]

\* the threads blocked in a cv_.wait
Waiters == {t \in Txns : lm_pc[t] # "idle"}

\* does the transaction hold a lock on the rid
Owns(txn_id, rid) ==
    \/ rid \in lm_txn[txn_id].shared_lock_set
    \/ rid \in lm_txn[txn_id].exclusive_lock_set

\* a call of LockShared, LockExclusive or LockUpgrade runs up to its wait
\* or to its return
Calls(txn_id, method, r) ==
    /\ lm_txn' = r.txn
    /\ lm_rq' = r.rq
    /\ lm_pc' = [lm_pc EXCEPT ![txn_id] = IF r.blocked THEN method ELSE "idle"]
    /\ UNCHANGED lm_notified
    /\ UNCHANGED notLocks

\* the call appends a request: the model stops at MaxRequests requests
Room == Len(lm_rq.request_queue) < MaxRequests

LmLockShared(txn_id, rid) ==
    /\ lm_pc[txn_id] = "idle"
    /\ lm_txn[txn_id].state # "ABORTED"
    /\ ~Owns(txn_id, rid)
    /\ Room
    /\ \E r \in {LockShared(Locks, txn_id, rid)} :
          Calls(txn_id, "LockShared", r)

LmLockExclusive(txn_id, rid) ==
    /\ lm_pc[txn_id] = "idle"
    /\ lm_txn[txn_id].state # "ABORTED"
    /\ ~Owns(txn_id, rid)
    /\ Room
    /\ \E r \in {LockExclusive(Locks, txn_id, rid)} :
          Calls(txn_id, "LockExclusive", r)

LmLockUpgrade(txn_id, rid) ==
    /\ lm_pc[txn_id] = "idle"
    /\ lm_txn[txn_id].state # "ABORTED"
    /\ rid \in lm_txn[txn_id].shared_lock_set
    /\ \E r \in {LockUpgrade(Locks, txn_id, rid)} :
          Calls(txn_id, "LockUpgrade", r)

\* a woken waiter evaluates its predicate: it goes on when it holds and
\* waits again when it does not
LmWake(txn_id, rid) ==
    /\ lm_pc[txn_id] # "idle"
    /\ txn_id \in lm_notified
    /\ lm_notified' = lm_notified \ {txn_id}
    /\ IF CanProceed(Locks, txn_id, lm_pc[txn_id])
       THEN \E r \in {AfterWait(Locks, txn_id, rid, lm_pc[txn_id])} :
                /\ lm_txn' = r.txn
                /\ lm_rq' = r.rq
                /\ lm_pc' = [lm_pc EXCEPT ![txn_id] = "idle"]
       ELSE UNCHANGED <<lm_txn, lm_rq, lm_pc>>
    /\ UNCHANGED notLocks

LmUnlock(txn_id, rid) ==
    /\ lm_pc[txn_id] = "idle"
    /\ Owns(txn_id, rid)
    /\ \E r \in {Unlock(Locks, txn_id, rid)} :
          /\ lm_txn' = r.txn
          /\ lm_rq' = r.rq
          /\ lm_notified' = IF r.notify THEN lm_notified \cup Waiters
                            ELSE lm_notified
    /\ UNCHANGED lm_pc
    /\ UNCHANGED notLocks

\* Unlock of another rid the transaction holds a lock on: of the state the
\* model keeps it changes the state of the transaction alone, from GROWING
\* to SHRINKING (or not at all: a shared lock under READ_COMMITTED).  The
\* model follows it for the transactions that hold a shared lock on the rid:
\* the others reach SHRINKING by unlocking the rid itself.
LmUnlockOther(txn_id) ==
    /\ lm_pc[txn_id] = "idle"
    /\ lm_txn[txn_id].state = "GROWING"
    /\ lm_txn[txn_id].shared_lock_set # {}
    /\ lm_txn' = [lm_txn EXCEPT ![txn_id].state = "SHRINKING"]
    /\ UNCHANGED <<lm_rq, lm_pc, lm_notified>>
    /\ UNCHANGED notLocks

NextLM ==
    \/ \E t \in Txns, rid \in Rids : LmLockShared(t, rid)
    \/ \E t \in Txns, rid \in Rids : LmLockExclusive(t, rid)
    \/ \E t \in Txns, rid \in Rids : LmLockUpgrade(t, rid)
    \/ \E t \in Txns, rid \in Rids : LmWake(t, rid)
    \/ \E t \in Txns, rid \in Rids : LmUnlock(t, rid)
    \/ \E t \in Txns : LmUnlockOther(t)

SpecLM == InitLM /\ [][NextLM]_vars

\* a wounder, another thread, aborts a transaction that waits in a lock
\* call and notifies the queue: the predicates of the cv_.wait calls test
\* for the ABORTED state
LmAbortWaiter(txn_id) ==
    /\ lm_pc[txn_id] # "idle"
    /\ lm_txn[txn_id].state # "ABORTED"
    /\ lm_txn' = [lm_txn EXCEPT ![txn_id].state = "ABORTED"]
    /\ lm_notified' = lm_notified \cup Waiters
    /\ UNCHANGED <<lm_rq, lm_pc>>
    /\ UNCHANGED notLocks

NextLMAbort ==
    \/ NextLM
    \/ \E t \in Txns : LmAbortWaiter(t)

\* the lock manager with transactions that are aborted while they wait
SpecLMAbort == InitLM /\ [][NextLMAbort]_vars

\* every holder of a lock eventually calls Unlock, and a thread that a
\* notify_all has woken eventually runs
FairLM ==
    /\ SpecLM
    /\ \A t \in Txns, rid \in Rids :
          WF_vars(LmUnlock(t, rid)) /\ WF_vars(LmWake(t, rid))

(***************************************************************************)
(* Properties of the LRU replacer.                                         *)
(***************************************************************************)
\* C11: Victim returns and removes the tracked frame whose latest successful
\* Unpin is the oldest, and reports none when nothing is tracked; Unpin of a
\* tracked frame changes neither membership nor order; Pin followed by Unpin
\* moves the frame to the tail.
C11_LruOrdering ==
    LET v == LRUVictim(rep_list)
    IN  /\ rep_order = <<>> => ~v.ok /\ v.list = rep_list
        /\ rep_order # <<>> =>
              /\ v.ok
              /\ v.frame = Head(rep_order)
              /\ v.list = Without(rep_list, v.frame)
        /\ Range(rep_list) = Range(rep_order)
        /\ \A f \in Range(rep_list) :
              /\ LRUUnpin(rep_list, f, LruSize) = rep_list
              /\ LRUUnpin(LRUPin(rep_list, f), f, LruSize)
                    = Append(Without(rep_list, f), f)

\* C11 witness: the end of Unpin 1,2,3,4; Victim; Victim; Unpin(3); Pin(3);
\* Unpin(3); Victim: frame 4 came out before the re-unpinned frame 3
C11_RepinnedFrameIsLast ==
    /\ rep_last = [op |-> "Victim", frame |-> 4, ok |-> TRUE]
    /\ rep_list = <<3>>
    /\ rep_order = <<3>>

\* C12: Size() never exceeds the capacity: an Unpin of a new frame at
\* capacity returns, having dropped the oldest entry and kept the new one.
C12_LruCapacity ==
    /\ Len(rep_list) <= LruSize
    /\ ~rep_blocked
    /\ \A f \in RepFrames \ Range(rep_list) :
          Len(rep_list) = LruSize =>
              LRUUnpin(rep_list, f, LruSize) = Append(Tail(rep_list), f)

(***************************************************************************)
(* Properties of the hash bucket page.                                     *)
(***************************************************************************)
\* the values of every live slot of b that holds the key, in slot order,
\* found by a scan of all of [0, BUCKET_ARRAY_SIZE)
LiveValues(b, key) ==
    LET all == [j \in 1 .. BUCKET_ARRAY_SIZE |-> j - 1]
        hits == SelectSeq(all, LAMBDA i : /\ b.readable[i]
                                          /\ b.array[i][1] = key)
    IN  [j \in DOMAIN hits |-> b.array[hits[j]][2]]

\* the slots whose readable bit differs between two buckets
ReadableDiff(b, c) == {i \in Slots : b.readable[i] # c.readable[i]}

\* c is b with at most the readable bit of one live slot cleared
OnlyUnsetsReadable(b, c, changed) ==
    /\ c.occupied = b.occupied
    /\ c.array = b.array
    /\ Cardinality(ReadableDiff(b, c)) = (IF changed THEN 1 ELSE 0)
    /\ \A i \in ReadableDiff(b, c) : b.readable[i] /\ ~c.readable[i]

\* C18: Insert of a pair that is not in the bucket fails only when the
\* bucket is full: whenever IsFull() is false it succeeds and GetValue
\* returns the pair.
C18_BucketCapacity ==
    \A k \in Keys, v \in Values :
        v \notin Range(BucketGetValue(bucket, k)) =>
            LET r == BucketInsert(bucket, k, v)
            IN  /\ ~r.ok => IsFull(bucket)
                /\ ~IsFull(bucket) =>
                      /\ r.ok
                      /\ v \in Range(BucketGetValue(r.bucket, k))

\* C19: the occupied slots are a prefix [0, n) and every readable slot is
\* occupied; Remove and RemoveAt clear the readable bit of one slot and
\* nothing else; so the short-circuiting GetValue returns the values of
\* exactly the live slots that hold the key.
C19_BucketTombstones ==
    /\ \A i \in Slots : bucket.occupied[i] =>
                             \A j \in 0 .. (i - 1) : bucket.occupied[j]
    /\ \A i \in Slots : bucket.readable[i] => bucket.occupied[i]
    /\ \A k \in Keys, v \in Values :
          LET r == BucketRemove(bucket, k, v)
          IN  OnlyUnsetsReadable(bucket, r.bucket, r.ok)
    /\ \A i \in Slots :
          OnlyUnsetsReadable(bucket, RemoveAt(bucket, i), bucket.readable[i])
    /\ \A k \in Keys : BucketGetValue(bucket, k) = LiveValues(bucket, k)

\* C19 witness: a full bucket whose first slot is a tombstone; GetValue
\* finds the live pair behind it
C19_LiveSlotBehindTombstone ==
    /\ \A i \in Slots : bucket.occupied[i]
    /\ ~bucket.readable[0]
    /\ bucket.readable[1]
    /\ BucketGetValue(bucket, bucket.array[1][1]) = <<bucket.array[1][2]>>

(***************************************************************************)
(* Properties of the hash index.                                           *)
(***************************************************************************)
\* no call on the index is in progress
Idle == ht_pc = "idle"

\* the pairs GetValue returns from a directory and bucket pages
Stored(dir, buckets) ==
    {p \in Keys \X Values : p[2] \in Range(GetValue(dir, buckets, p[1]))}

\* C13: between calls, GetValue(k) returns v for every pair (k, v) whose
\* Insert returned true and that no Remove has removed since, whatever
\* splits and directory growth the inserts caused.
C13_RoundTripPresence ==
    Idle => ht_present \subseteq Stored(ht_dir, ht_buckets)

\* C14: between calls, GetValue(k) does not return v for a pair (k, v) that
\* Remove removed (true) and no Insert has inserted since; Remove of a pair
\* that is not present returns false and changes nothing.
C14_RoundTripAbsence ==
    Idle =>
        /\ ht_removed \cap Stored(ht_dir, ht_buckets) = {}
        /\ \A p \in (Keys \X Values) \ ht_present :
              LET r == Remove(ht_dir, ht_buckets, p[1], p[2])
              IN  /\ ~r.ok
                  /\ r.dir = ht_dir
                  /\ r.buckets = ht_buckets

\* C14 witness: a pair was removed, a bucket was split (a third bucket page
\* exists) and Merge has shrunk the directory back to global depth 1
C14_RemovedThenShrunk ==
    /\ Idle
    /\ ht_removed # {}
    /\ Len(ht_buckets) >= 3
    /\ GetGlobalDepth(ht_dir) = 1

\* C15: Insert of a pair that is present returns false and leaves the stored
\* pairs unchanged, in a bucket page and in the index, also when the target
\* bucket is full and the call goes through SplitInsert.
C15_DuplicateInsert ==
    /\ \A n \in DOMAIN ht_buckets, k \in Keys, v \in Values :
          v \in Range(BucketGetValue(ht_buckets[n], k)) =>
              BucketInsert(ht_buckets[n], k, v)
                  = [ok |-> FALSE, bucket |-> ht_buckets[n]]
    /\ Idle =>
          \A p \in ht_present \cap Stored(ht_dir, ht_buckets) :
              LET r == Insert(ht_dir, ht_buckets, p[1], p[2])
              IN  /\ ~r.ok
                  /\ Stored(r.dir, r.buckets) = Stored(ht_dir, ht_buckets)
    /\ (~Idle /\ ht_arg \in ht_present \cap Stored(ht_dir, ht_buckets)) =>
          LET r == SplitInsert(ht_dir, ht_buckets, ht_arg[1], ht_arg[2])
          IN  /\ ~r.ok
              /\ Stored(r.dir, r.buckets) = Stored(ht_dir, ht_buckets)

\* C16: between calls VerifyIntegrity holds of the directory.
C16_DirectoryConsistency == Idle => VerifyIntegrity(ht_dir)

\* C17: the index the constructor leaves has global depth 1 and two slots
\* of local depth 1 that point to two distinct new bucket pages.
C17_InitialIndexState ==
    (ht_dir = Construct.dir /\ ht_buckets = Construct.buckets) =>
        /\ GetGlobalDepth(ht_dir) = 1
        /\ GetLocalDepth(ht_dir, 0) = 1
        /\ GetLocalDepth(ht_dir, 1) = 1
        /\ GetBucketPageId(ht_dir, 0) # GetBucketPageId(ht_dir, 1)
        /\ {GetBucketPageId(ht_dir, 0), GetBucketPageId(ht_dir, 1)}
              \subseteq DOMAIN ht_buckets
        /\ \A n \in DOMAIN ht_buckets : ht_buckets[n] = ZeroBucket

(***************************************************************************)
(* Properties of the lock manager.                                         *)
(***************************************************************************)
\* the transactions that hold a granted lock of a mode on the rid: the rid
\* is in their owned-lock set and they have not been aborted
SharedHolders(rid) ==
    {t \in Txns : /\ rid \in lm_txn[t].shared_lock_set
                  /\ lm_txn[t].state # "ABORTED"}

ExclusiveHolders(rid) ==
    {t \in Txns : /\ rid \in lm_txn[t].exclusive_lock_set
                  /\ lm_txn[t].state # "ABORTED"}

\* C20: at any moment the holders of granted locks on a rid are one
\* exclusive holder or any number of shared holders, never an exclusive
\* holder together with another holder.
C20_LockSafety ==
    \A rid \in Rids :
        /\ Cardinality(ExclusiveHolders(rid)) <= 1
        /\ ExclusiveHolders(rid) # {}
              => SharedHolders(rid) \subseteq ExclusiveHolders(rid)

\* the three lock methods
LockMethods == {"LockShared", "LockExclusive", "LockUpgrade"}

\* may the thread of the transaction call the method on the rid now
Callable(txn_id, method, rid) ==
    /\ lm_pc[txn_id] = "idle"
    /\ lm_txn[txn_id].state # "ABORTED"
    /\ IF method = "LockUpgrade"
       THEN rid \in lm_txn[txn_id].shared_lock_set
       ELSE ~Owns(txn_id, rid) /\ Room

\* what the call leaves
Called(txn_id, method, rid) ==
    CASE method = "LockShared" -> LockShared(Locks, txn_id, rid)
      [] method = "LockExclusive" -> LockExclusive(Locks, txn_id, rid)
      [] OTHER -> LockUpgrade(Locks, txn_id, rid)

\* the transactions as every step the lock manager can take now leaves them
Outcomes ==
    {Called(t, m, rid).txn :
        t \in {u \in Txns : \E rid \in Rids, m \in LockMethods :
                                Callable(u, m, rid)},
        m \in {n \in LockMethods : \E u \in Txns, rid \in Rids :
                                       Callable(u, n, rid)},
        rid \in Rids}
    \cup {Unlock(Locks, t, rid).txn : t \in Txns, rid \in Rids}
    \cup {AfterWait(Locks, t, rid, m).txn :
             t \in Txns, rid \in Rids, m \in LockMethods}

\* the call fails with the reason, aborts the caller and grants nothing
FailsWith(txn_id, method, rid, reason) ==
    LET r == Called(txn_id, method, rid)
    IN  /\ r.err = reason
        /\ ~r.blocked
        /\ r.txn[txn_id].state = "ABORTED"
        /\ r.txn[txn_id].shared_lock_set = lm_txn[txn_id].shared_lock_set
        /\ r.txn[txn_id].exclusive_lock_set
               = lm_txn[txn_id].exclusive_lock_set
        /\ r.rq = lm_rq

\* no step of the lock manager moves a SHRINKING transaction to GROWING
NeverGrowsAgain ==
    \A t \in Txns :
        lm_txn[t].state = "SHRINKING"
            => \A after \in Outcomes : after[t].state # "GROWING"

\* C21 as stated: every lock call of a SHRINKING transaction grants nothing,
\* aborts it and fails with LOCK_ON_SHRINKING, and no step of the lock
\* manager moves a transaction from SHRINKING back to GROWING.
C21_Original ==
    /\ NeverGrowsAgain
    /\ \A t \in Txns, rid \in Rids, m \in LockMethods :
          Callable(t, m, rid) /\ lm_txn[t].state = "SHRINKING"
              => FailsWith(t, m, rid, "LOCK_ON_SHRINKING")

\* C21 (amended): every lock call of a SHRINKING transaction grants nothing
\* and aborts it; it fails with LOCK_ON_SHRINKING, except LockShared of a
\* READ_UNCOMMITTED transaction, which fails with
\* LOCKSHARED_ON_READ_UNCOMMITTED; no step of the lock manager moves a
\* transaction from SHRINKING back to GROWING.
C21_TwoPhaseLocking ==
    /\ NeverGrowsAgain
    /\ \A t \in Txns, rid \in Rids, m \in LockMethods :
          Callable(t, m, rid) /\ lm_txn[t].state = "SHRINKING"
              => FailsWith(t, m, rid,
                     IF /\ m = "LockShared"
                        /\ IsolationLevelOf(t) = "READ_UNCOMMITTED"
                     THEN "LOCKSHARED_ON_READ_UNCOMMITTED"
                     ELSE "LOCK_ON_SHRINKING")

\* a SHRINKING transaction that holds a shared lock on the rid may ask for
\* the upgrade, while another SHRINKING transaction may ask for a lock
C21_ShrinkingCallers ==
    \E t, u \in Txns, rid \in Rids :
        /\ t # u
        /\ lm_txn[t].state = "SHRINKING"
        /\ lm_txn[u].state = "SHRINKING"
        /\ Callable(t, "LockUpgrade", rid)
        /\ Callable(u, "LockExclusive", rid)
        /\ lm_rq.refcount > 0

\* the mode of the lock the transaction holds on the rid
HeldMode(txn_id, rid) ==
    IF rid \in lm_txn[txn_id].exclusive_lock_set THEN "EXCLUSIVE"
    ELSE "SHARED"

\* C22: when a GROWING transaction unlocks a rid, its state becomes
\* SHRINKING if and only if it is not the case that the lock it held on the
\* rid was shared and its isolation level is READ_COMMITTED.
C22_UnlockTransition ==
    \A t \in Txns, rid \in Rids :
        /\ lm_pc[t] = "idle"
        /\ Owns(t, rid)
        /\ lm_txn[t].state = "GROWING"
        => (Unlock(Locks, t, rid).txn[t].state = "SHRINKING"
               <=> ~(/\ HeldMode(t, rid) = "SHARED"
                     /\ IsolationLevelOf(t) = "READ_COMMITTED"))

\* the granted holders the request conflicts with
Conflicting(txn_id, method, rid) ==
    IF method = "LockShared" THEN ExclusiveHolders(rid) \ {txn_id}
    ELSE (SharedHolders(rid) \cup ExclusiveHolders(rid)) \ {txn_id}

\* C23: when a lock request cannot be admitted, a requester with a smaller
\* txn_id than a granted holder wounds that holder (the holder becomes
\* ABORTED) and acquires the lock, while a requester with a larger txn_id
\* than every holder waits.
C23_WoundWait ==
    \A t \in Txns, rid \in Rids, m \in LockMethods :
        /\ Callable(t, m, rid)
        /\ lm_txn[t].state = "GROWING"
        /\ Called(t, m, rid).err = "none"
        /\ Conflicting(t, m, rid) # {}
        => LET r == Called(t, m, rid)
               younger == {h \in Conflicting(t, m, rid) : t < h}
           IN  /\ \A h \in younger : r.txn[h].state = "ABORTED"
               /\ younger = Conflicting(t, m, rid) => ~r.blocked
               /\ younger = {} => r.blocked

\* C24: when no transaction is wounded or otherwise aborted and every holder
\* eventually calls Unlock, every blocked LockShared, LockExclusive or
\* LockUpgrade request is eventually granted (a call that leaves its wait
\* unaborted has been granted).
C24_Liveness ==
    \A t \in Txns :
        (lm_pc[t] # "idle")
            ~> (\/ lm_pc[t] = "idle"
                \/ \E u \in Txns : lm_txn[u].state = "ABORTED")

\* the transactions whose exclusive request on the rid is pending: they wait
\* in LockExclusive or in LockUpgrade
PendingExclusive == {t \in Txns : lm_pc[t] \in {"LockExclusive", "LockUpgrade"}}

\* C25: a LockShared request on a rid is never granted while an exclusive
\* request on the same rid is granted or is pending.
C25_NoOvertaking ==
    \A t \in Txns, rid \in Rids :
        /\ \/ /\ Callable(t, "LockShared", rid)
              /\ rid \in Called(t, "LockShared", rid).txn[t].shared_lock_set
           \/ /\ lm_pc[t] = "LockShared"
              /\ CanProceed(Locks, t, "LockShared")
              /\ rid \in AfterWait(Locks, t, rid, "LockShared")
                            .txn[t].shared_lock_set
        => /\ ExclusiveHolders(rid) = {}
           /\ PendingExclusive \ {t} = {}

\* the reasons of a TransactionAbortException of the lock manager
AbortReasons ==
    {"LOCK_ON_SHRINKING", "LOCKSHARED_ON_READ_UNCOMMITTED",
     "UPGRADE_CONFLICT", "DEADLOCK"}

\* the owned-lock sets of a transaction
Owned(txn) == txn.shared_lock_set \cup txn.exclusive_lock_set

\* the call has failed for one of the reasons, with the caller ABORTED and
\* the rid not added to its owned-lock sets
FailsCleanly(r, txn_id, rid) ==
    r.err # "none"
        => /\ r.err \in AbortReasons
           /\ ~r.blocked
           /\ r.txn[txn_id].state = "ABORTED"
           /\ rid \notin Owned(r.txn[txn_id]) \ Owned(lm_txn[txn_id])

\* C26: every failing LockShared, LockExclusive or LockUpgrade call fails
\* with one of the four reasons, with the state of the transaction ABORTED
\* and the rid not added to its owned-lock sets; LockShared by a
\* READ_UNCOMMITTED transaction always fails with
\* LOCKSHARED_ON_READ_UNCOMMITTED.
C26_LockErrors ==
    \A t \in Txns, rid \in Rids, m \in LockMethods :
        /\ Callable(t, m, rid)
              => /\ FailsCleanly(Called(t, m, rid), t, rid)
                 /\ m = "LockShared"
                    /\ IsolationLevelOf(t) = "READ_UNCOMMITTED"
                       => Called(t, m, rid).err
                             = "LOCKSHARED_ON_READ_UNCOMMITTED"
        /\ lm_pc[t] = m /\ CanProceed(Locks, t, m)
              => FailsCleanly(AfterWait(Locks, t, rid, m), t, rid)

\* a state where calls fail: a transaction that asks for a lock wounds itself
\* (DEADLOCK) and a SHRINKING READ_UNCOMMITTED transaction that asks for a
\* shared lock gets LOCKSHARED_ON_READ_UNCOMMITTED
C26_CallsFail ==
    \E t, v \in Txns, rid \in Rids, m \in LockMethods :
        /\ Callable(t, m, rid)
        /\ Called(t, m, rid).err = "DEADLOCK"
        /\ Callable(v, "LockShared", rid)
        /\ lm_txn[v].state = "SHRINKING"
        /\ Called(v, "LockShared", rid).err = "LOCKSHARED_ON_READ_UNCOMMITTED"

\* the transactions that are mid-upgrade: inside LockUpgrade, neither
\* granted nor aborted yet
MidUpgrade == {t \in Txns : lm_pc[t] = "LockUpgrade"}

C28_RequestRemoval ==
    \A t \in Txns, rid \in Rids :
        /\ lm_pc[t] = "idle" /\ Owns(t, rid)
              => /\ QueueFind(Unlock(Locks, t, rid).rq, t) = 0
                 /\ rid \notin Owned(Unlock(Locks, t, rid).txn[t])
        /\ \A m \in LockMethods :
              Callable(t, m, rid) /\ Called(t, m, rid).err = "DEADLOCK"
                  => QueueFind(Called(t, m, rid).rq, t) = 0

\* C29: FlushAllPgsImp never traverses the page table while another thread
\* is mutating it (as long as its loop has entries to visit, the page table
\* is the one the loop began on), and when FlushAllPgsImp returns with no
\* concurrent activity every resident page is clean.
C29_LatchDiscipline ==
    /\ flush_all.running /\ flush_all.todo # {}
          => page_table = flush_all.table
    /\ \A p \in DOMAIN page_table :
          ~FlushAllPgsImp.pages[FlushAllPgsImp.page_table[p]].is_dirty

\* C30: each pass of the loop of SplitInsert that splits strictly increases
\* the local depth of the overflowing bucket and keeps it within MAX_DEPTH,
\* so the loop ends after at most MAX_DEPTH splits.
C30_SplitTerminates ==
    ht_pc = "split"
        => LET r == SplitInsert(ht_dir, ht_buckets, ht_arg[1], ht_arg[2])
               bucket_idx == KeyToDirectoryIndex(ht_arg[1], ht_dir)
           IN  ~r.inserted
                   => /\ GetLocalDepth(r.dir, bucket_idx)
                            > GetLocalDepth(ht_dir, bucket_idx)
                      /\ GetLocalDepth(r.dir, bucket_idx) <= MAX_DEPTH


\* C31: a pass of SplitInsert that splits the bucket of slot i grows the
\* directory exactly when local_depth(i) equals the global depth, binds the
\* split-image slot (computed after the growth) to a newly allocated page,
\* and leaves slot i and its split image at the old local_depth(i) + 1 and
\* on two different bucket pages.
C31_SplitDepths ==
    ht_pc = "split"
        => LET r == SplitInsert(ht_dir, ht_buckets, ht_arg[1], ht_arg[2])
               i == KeyToDirectoryIndex(ht_arg[1], ht_dir)
               image_i == GetSplitImageIndex(r.dir, i)
               old_depth == GetLocalDepth(ht_dir, i)
           IN  ~r.inserted
                   => /\ (GetGlobalDepth(r.dir) = GetGlobalDepth(ht_dir) + 1)
                            <=> (old_depth = GetGlobalDepth(ht_dir))
                      /\ GetBucketPageId(r.dir, image_i) = Len(ht_buckets) + 1
                      /\ GetBucketPageId(r.dir, image_i)
                            # GetBucketPageId(r.dir, i)
                      /\ GetLocalDepth(r.dir, i) = old_depth + 1
                      /\ GetLocalDepth(r.dir, image_i) = old_depth + 1

\* the pairs in the readable slots of a bucket page
LivePairs(b) == {b.array[j] : j \in {s \in Slots : IsReadable(b, s)}}

\* C32: a pass of SplitInsert that splits moves a live pair of the old
\* bucket to the image bucket exactly when its hash under the new
\* local-depth mask equals the image slot's masked index and keeps it in the
\* old bucket otherwise, and afterwards every live pair of every bucket the
\* directory refers to sits in the bucket its key's directory slot points to.
C32_SplitMigration ==
    ht_pc = "split"
        => LET r == SplitInsert(ht_dir, ht_buckets, ht_arg[1], ht_arg[2])
               i == KeyToDirectoryIndex(ht_arg[1], ht_dir)
               bucket_page_id == GetBucketPageId(ht_dir, i)
               image_i == GetSplitImageIndex(r.dir, i)
               image_bucket_page_id == Len(ht_buckets) + 1
               new_mask == 2 ^ (GetLocalDepth(ht_dir, i) + 1)
           IN  ~r.inserted
                   => /\ \A pair \in LivePairs(ht_buckets[bucket_page_id]) :
                          LET moves == Hash(pair[1]) % new_mask
                                           = image_i % new_mask
                          IN  /\ (pair \in LivePairs(
                                      r.buckets[image_bucket_page_id]))
                                     <=> moves
                              /\ (pair \in LivePairs(
                                      r.buckets[bucket_page_id]))
                                     <=> ~moves
                      /\ \A s \in 0 .. (Size(r.dir) - 1) :
                          \A pair \in LivePairs(
                                  r.buckets[GetBucketPageId(r.dir, s)]) :
                              KeyToPageId(pair[1], r.dir)
                                  = GetBucketPageId(r.dir, s)

\* the pairs a caller of the index may pass
AnyPair == (Keys \X Values) \cup MergePairs

\* the directory when the loop of Merge reaches slot n, for a Merge that
\* began on dir
RECURSIVE MergeBefore(_, _, _)
MergeBefore(dir, buckets, n) ==
    IF n = 0 THEN dir
    ELSE LET before == MergeBefore(dir, buckets, n - 1)
         IN  IF n - 1 < Size(before)
             THEN MergeSlot(before, buckets, n - 1).dir
             ELSE before

\* the bucket pages after the bucket-page Remove of a call of Remove
AfterBucketRemove(key, value) ==
    [ht_buckets EXCEPT
        ![KeyToPageId(key, ht_dir)] =
            BucketRemove(ht_buckets[KeyToPageId(key, ht_dir)],
                         key, value).bucket]

\* a call of Remove that goes on to Merge
RemoveMerges(key, value) ==
    /\ ht_pc = "idle"
    /\ BucketRemove(ht_buckets[KeyToPageId(key, ht_dir)], key, value).ok
    /\ IsEmpty(AfterBucketRemove(key, value)[KeyToPageId(key, ht_dir)])

\* slot n is one the claim has Merge merge
MergeEligible(dir, buckets, n) ==
    /\ IsEmpty(buckets[GetBucketPageId(dir, n)])
    /\ GetLocalDepth(dir, n) > 1
    /\ GetLocalDepth(dir, GetSplitImageIndex(dir, n)) = GetLocalDepth(dir, n)

\* what the claim has one pass of Merge do to the directory d at slot n
MergesAsClaimed(d, buckets, n) ==
    LET r == MergeSlot(d, buckets, n).dir
        image_n == GetSplitImageIndex(d, n)
        folded == {j \in 0 .. (Size(d) - 1) :
                      GetBucketPageId(d, j) \in {GetBucketPageId(d, n),
                                                 GetBucketPageId(d, image_n)}}
    IN  /\ \A j \in DirSlots :
              IF MergeEligible(d, buckets, n) /\ j \in folded
              THEN /\ GetLocalDepth(r, j) = GetLocalDepth(d, n) - 1
                   /\ GetBucketPageId(r, j) = GetBucketPageId(d, image_n)
              ELSE /\ GetLocalDepth(r, j) = GetLocalDepth(d, j)
                   /\ GetBucketPageId(r, j) = GetBucketPageId(d, j)
        /\ GetGlobalDepth(r) \in {GetGlobalDepth(d), GetGlobalDepth(d) - 1}
        /\ GetGlobalDepth(r) < GetGlobalDepth(d)
              => \A j \in 0 .. (Size(d) - 1) :
                     GetLocalDepth(r, j) < GetGlobalDepth(d)

Referenced(dir, bucket_page_id) ==
    \E i \in 0 .. (Size(dir) - 1) : GetBucketPageId(dir, i) = bucket_page_id

Obtained(calls, k) ==
    LET before == {j \in 1 .. (k - 1) :
                      /\ calls[j].call \in {"FetchPage", "NewPage"}
                      /\ calls[j].page_id = calls[k].page_id}
    IN  IF before = {} THEN 0
        ELSE CHOOSE j \in before : \A i \in before : i <= j

\* the operation wrote the page between obtaining it and the UnpinPage at k
Modified(calls, k) ==
    \E w \in (Obtained(calls, k) + 1) .. (k - 1) :
        /\ calls[w].call = "write"
        /\ calls[w].page_id = calls[k].page_id

\* every UnpinPage of the calls gives is_dirty = true exactly when the
\* operation wrote the page it had fetched, and gives true for every page
\* from NewPage that it wrote
DirtyIffModified(calls) ==
    \A k \in DOMAIN calls :
        calls[k].call = "UnpinPage"
            => /\ Obtained(calls, k) # 0
               /\ Modified(calls, k) => calls[k].is_dirty
               /\ calls[Obtained(calls, k)].call = "FetchPage"
                     /\ calls[k].is_dirty
                     => Modified(calls, k)

Count(calls, n, names, page_id) ==
    Cardinality({j \in 1 .. n : /\ calls[j].call \in names
                                /\ calls[j].page_id = page_id})

\* the pins on the page that the first n calls took and have not given back
Pinned(calls, n, page_id) ==
    Count(calls, n, {"FetchPage", "NewPage"}, page_id)
        - Count(calls, n, {"UnpinPage"}, page_id)

\* the calls unpin only pages they hold, access a page only while they hold
\* it, and hold no page when the operation returns
BorrowsReturned(calls) ==
    \A k \in DOMAIN calls :
        /\ calls[k].call = "UnpinPage"
              => Pinned(calls, k - 1, calls[k].page_id) > 0
        /\ calls[k].call \in {"read", "write"}
              => Pinned(calls, k - 1, calls[k].page_id) > 0
        /\ calls[k].call = "return"
              => \A j \in 1 .. k : Pinned(calls, k, calls[j].page_id) = 0

\* C37: the constructor, GetValue, Insert with its SplitInsert and Remove
\* with its Merge issue one UnpinPage for each FetchPage or NewPage, so that
\* no page stays pinned when they return, and read or write a page only
\* before their UnpinPage of it.
C37_PinnedBorrows ==
    ht_pc = "idle"
        => /\ BorrowsReturned(ConstructCalls)
           /\ \A p \in AnyPair :
               /\ BorrowsReturned(GetValueCalls(ht_dir, ht_buckets, p[1]))
               /\ BorrowsReturned(InsertCalls(ht_dir, ht_buckets,
                                              p[1], p[2]))
               /\ BorrowsReturned(RemoveCalls(ht_dir, ht_buckets,
                                              p[1], p[2]))

\* a step taken while a thread stays at the head of the loop of SplitInsert
\* (line 151, the directory fetched) that is not a pass of that loop: a pass
\* that leaves the thread inside allocates a bucket page
BesideSplit ==
    /\ ht_pc = "split"
    /\ ht_pc' = "split"
    /\ Len(ht_buckets') = Len(ht_buckets)

\* C35: SplitInsert holds the table latch in write mode from its first pass
\* to its return, so while a thread is inside SplitInsert no step of another
\* thread changes the directory or a bucket page.
C35_IndexLatching ==
    [][BesideSplit => UNCHANGED <<ht_dir, ht_buckets>>]_vars

\* C38: in every reachable state the refcount of the queue of a rid is the
\* number of transactions that have the rid in their shared lock set and is
\* never negative, and the waiting flag is set whenever a transaction has
\* the rid in its exclusive lock set.
C38_QueueCounters ==
    \A rid \in Rids :
        /\ lm_rq.refcount
             = Cardinality({t \in Txns : rid \in lm_txn[t].shared_lock_set})
        /\ lm_rq.refcount >= 0
        /\ (\E t \in Txns : rid \in lm_txn[t].exclusive_lock_set)
              => lm_rq.waiting

\* C39: every call of Unpin returns, and no call of Unpin locks latch_ again
\* while it holds it, also when its push_back makes the list longer than
\* lru_size_.
C39_UnpinReturns ==
    /\ rep_last.op = "Unpin" => rep_last.ok
    /\ \A f \in RepFrames :
          LRUUnpinOverflows(rep_list, f, LruSize) => rep_ndebug

====
